---- MODULE Spec2Model ----
(***************************************************************************)
(* Excel Session Manager: the link updater (run_excel_link_update), the    *)
(* external links manager (scan, grouping, search) and the session         *)
(* manager (save_session / load_session), as state machines.               *)
(*                                                                         *)
(* Strings that the code only compares for equality are model values       *)
(* (TLA+ strings).  Strings that the code takes apart (paths, formulas,    *)
(* search keywords) are sequences of symbols.                              *)
(***************************************************************************)
EXTENDS Integers, Sequences, FiniteSets, TLC

(***************************************************************************)
(* Bounds of the model.                                                    *)
(***************************************************************************)
\* file modification times are 0..MaxTime; the run starts at time MaxTime
MaxTime == 2
\* the CHECK_DAYS option ranges over 1..MaxDays
MaxDays == 1
\* at most MaxWbs workbooks are open in Excel during a link update
MaxWbs == 2
\* LinkSources returns at most MaxLinks links for a workbook
MaxLinks == 2

(***************************************************************************)
(* Generic helpers.                                                        *)
(***************************************************************************)
Range(s) == {s[i] : i \in 1..Len(s)}

NoDup(s) == \A i, j \in 1..Len(s) : i # j => s[i] # s[j]

\* the sequences over S of length lo..hi without a repeated element
DistinctSeqs(S, lo, hi) ==
    {s \in UNION {[1..n -> S] : n \in lo..hi} : NoDup(s)}

Count(s, x) == Cardinality({i \in 1..Len(s) : s[i] = x})

(***************************************************************************)
(* LINK UPDATER  (src/excel_session_manager_link_updater.py)               *)
(***************************************************************************)
VARIABLES
    disk,               \* the file system: path -> Missing or the file's mtime
    Workbooks,          \* excel.Workbooks: the FullName of each open workbook
    CHECK_DAYS,         \* options["CHECK_DAYS"]
    SAVE_LOG,           \* options["SAVE_LOG"]
    lu_pc,              \* where run_excel_link_update is
    threshold_date,     \* check_and_update_links: threshold_date
    total_workbooks,    \* check_and_update_links: total_workbooks
    total_updated,      \* check_and_update_links: total_updated
    workbook_index,     \* check_and_update_links: workbook_index
    links,              \* LinkSources' result for the current workbook
    link_index,         \* links classified so far in the current workbook
    updated_links,      \* updated_links of the current workbook
    update_index,       \* updated_links already passed to UpdateLink
    events,             \* history: the classifications and UpdateLink calls
    com_initialized,    \* CoInitialize calls not yet matched by CoUninitialize
    log_file_handler,   \* "none", "open" or "closed"
    update_returned,    \* history: per UpdateLink call of the current
                        \* workbook, whether it returned
    returned_count,     \* history: the UpdateLink calls that have returned
    read_failed         \* history: the current workbook's LinkSources raised

luVars == <<disk, Workbooks, CHECK_DAYS, SAVE_LOG, lu_pc, threshold_date,
            total_workbooks, total_updated, workbook_index, links, link_index,
            updated_links, update_index, events, com_initialized,
            log_file_handler, update_returned, returned_count, read_failed>>

\* the history of the link updater's failures
luHistory == <<update_returned, returned_count, read_failed>>

VARIABLES
    external_links,     \* ExternalLinksManager.external_links
    grouped_links,      \* ExternalLinksManager.grouped_links
    scan_pc,            \* per scan call: "idle", "loop", "finish" or "returned"
    statistics,         \* per scan call: scan_open_workbooks' statistics
    workbooks_with_links, \* per scan call: the local set
    external_files,     \* per scan call: the local set
    scan_com,           \* per scan call: CoInitialize calls not yet undone
    scan_result,        \* what the scan that returned last returned
    scan_found,         \* history: the links the most recent scan call added
    latest_scan,        \* history: the most recent scan call
    method1_found,      \* history: the links its Method 1 (LinkSources) found
    view                \* the result of the call the dialog's handler has made

scanVars == <<external_links, grouped_links, scan_pc, statistics,
              workbooks_with_links, external_files, scan_com, scan_result,
              scan_found, latest_scan, method1_found, view>>

VARIABLES
    excel_open,         \* the paths of the workbooks open in Excel
    files_on_disk,      \* the workbook paths that exist on disk
    session_file,       \* the rows of the session file, header first
    last_save,          \* the outcome of the last Save Session
    load_pc,            \* per load_session call: where it is
    load_info,          \* history, per load_session call: what it saw and did
    selected_rows,      \* per load_session call: the rows given to its thread
    load_index,         \* per load_session call: the row its thread is at
    open_calls          \* history: the calls of Workbooks.Open

sessVars == <<excel_open, files_on_disk, session_file, last_save, load_pc,
              load_info, selected_rows, load_index, open_calls>>

VARIABLES
    open_names,         \* workbook.Name of the workbooks open in Excel, in order
    sv_op,              \* "save" (save_workbooks) or "save_close"
    sv_selected,        \* the names of selected_workbooks, in order
    sv_pc,              \* where the save pass is
    sv_idx,             \* idx: the selected entry the pass is at
    sv_attempt,         \* attempt: the Save attempts that failed for the entry
    sv_calls,           \* history: the Save and Close calls of the pass
    sv_report,          \* history: the outcome reported for each entry
    sv_completed,       \* the pass has printed its completion line
    sv_com,             \* CoInitialize calls of the pass not yet undone
    \* ---- the process manager's zombie cleanup ----
    processes,          \* the operating system's processes, by pid
    pz_pc,              \* where cleanup_zombie_excel_processes is
    pz_idx,             \* the pid process_iter is at
    pz_info,            \* proc.info: the snapshot taken when proc was yielded
    pz_exc,             \* the exception the handler before proc.kill() caught
    pz_calls,           \* history: the terminate and kill calls
    cleaned_count,      \* cleaned_count
    \* ---- the performance monitor ----
    max_history,        \* self.max_history
    metrics_history,    \* self.metrics_history, oldest record first
    operation_timings,  \* self.operation_timings, oldest record first
    active_operations,  \* self.active_operations: the timings by operation id
    perf_time,          \* time.time()
    metrics_recorded,   \* history: every metric appended, in order
    timings_recorded,   \* history: every timing appended, in order
    \* ---- the Excel manager's listing of the open workbooks ----
    gw_workbooks,       \* excel.Workbooks: the names of the open workbooks
    gw_pc,              \* where get_open_workbooks is
    gw_idx,             \* the workbooks the loop has been through
    file_list,          \* file_list
    sheet_list,         \* sheet_list
    cell_list,          \* cell_list
    path_list,          \* path_list
    gw_raised,          \* history: per workbook, the property that raised
    gw_com              \* CoInitialize calls of the listing not yet undone

saveVars == <<open_names, sv_op, sv_selected, sv_pc, sv_idx, sv_attempt,
              sv_calls, sv_report, sv_completed, sv_com>>

procVars == <<processes, pz_pc, pz_idx, pz_info, pz_exc, pz_calls,
              cleaned_count>>

perfVars == <<max_history, metrics_history, operation_timings,
              active_operations, perf_time, metrics_recorded,
              timings_recorded>>

listVars == <<gw_workbooks, gw_pc, gw_idx, file_list, sheet_list, cell_list,
              path_list, gw_raised, gw_com>>

\* the UI thread and its workers
VARIABLES
    workers,         \* per worker: kind, position, entries, prints sent, Excel reached
    console,         \* per worker: its ConsolePopup
    after_queue,     \* the callbacks posted with after(0, ...), oldest first
    timers,          \* the workers whose 200 ms list refresh is pending
    ui_op,           \* the Excel call sequence the UI thread is in, or "none"
    shown,           \* per worker: the kinds of completion callbacks that were run
    update_threads   \* the threads that have run an update of the UI

uiVars == <<workers, console, after_queue, timers, ui_op, shown, update_threads>>

vars == <<luVars, scanVars, sessVars, saveVars, procVars, perfVars, listVars, uiVars>>

\* the variables of the other components, which a component's step leaves alone
restLU == <<scanVars, sessVars, saveVars, procVars, perfVars, listVars, uiVars>>
restScan == <<luVars, sessVars, saveVars, procVars, perfVars, listVars, uiVars>>
restSess == <<luVars, scanVars, saveVars, procVars, perfVars, listVars, uiVars>>
restSave == <<luVars, scanVars, sessVars, procVars, perfVars, listVars, uiVars>>
restProc == <<luVars, scanVars, sessVars, saveVars, perfVars, listVars, uiVars>>
restPerf == <<luVars, scanVars, sessVars, saveVars, procVars, listVars, uiVars>>
restList == <<luVars, scanVars, sessVars, saveVars, procVars, perfVars, uiVars>>
restUI == <<luVars, scanVars, sessVars, saveVars, procVars, perfVars, listVars>>

\* None, as get_last_modified_date returns it for a file that is not there; an
\* integer below every time, so that the model compares like with like
Missing == -1

Paths == {"a.xlsx", "b.xlsx", "c.xlsx"}

Times == 0..MaxTime

\* datetime.now() when the run starts
Now == MaxTime

\* os.path.exists(file_path)
path_exists(file_path) == disk[file_path] # Missing

\* get_last_modified_date: None (Missing) for a file that is not there
get_last_modified_date(file_path) ==
    IF path_exists(file_path) THEN disk[file_path] ELSE Missing

\* os.path.samefile(a, b) stats both paths and raises when either is not on disk
samefile_raises(a, b) == ~path_exists(a) \/ ~path_exists(b)

\* is_workbook_open: the loop over excel.Workbooks from position i on; an
\* exception raised by samefile leaves the loop and the function returns False
RECURSIVE is_workbook_open_from(_, _)
is_workbook_open_from(i, file_path) ==
    IF i > Len(Workbooks) THEN FALSE
    ELSE IF samefile_raises(Workbooks[i], file_path) THEN FALSE
    ELSE IF Workbooks[i] = file_path THEN TRUE
    ELSE is_workbook_open_from(i + 1, file_path)

is_workbook_open(file_path) == is_workbook_open_from(1, file_path)

\* mutant of is_recent: a source modified exactly at the cutoff is left out
is_recent_strict(last_modified, threshold) ==
    last_modified # Missing /\ last_modified > threshold

\* line 126: last_modified and last_modified >= threshold_date
is_recent(last_modified, threshold) ==
    last_modified # Missing /\ last_modified >= threshold

\* mutant of append_updated: the link is put in front of the list
prepend_updated(updated, link) == <<link>> \o updated

\* line 130: updated_links.append(link)
append_updated(updated, link) == Append(updated, link)

\* lines 126-133: whether the link goes to updated_links
needs_update(link) ==
    /\ is_recent(get_last_modified_date(link), threshold_date)
    /\ ~is_workbook_open(link)

\* what workbook.LinkSources can return for the workbook at path wb: no link
\* (None, the empty sequence here) or the links' source paths
LinkSourcesResults(wb) == DistinctSeqs(Paths \ {wb}, 0, MaxLinks)

ClassifyEvent(w, link) == [kind |-> "classify", wb |-> w, link |-> link]
UpdateEvent(w, link) == [kind |-> "update", wb |-> w, link |-> link]

\* the link updater before run_excel_link_update is called
LUIdle ==
    /\ lu_pc = "idle"
    /\ threshold_date = Missing
    /\ total_workbooks = 0
    /\ total_updated = 0
    /\ workbook_index = 0
    /\ links = <<>>
    /\ link_index = 0
    /\ updated_links = <<>>
    /\ update_index = 0
    /\ events = <<>>
    /\ com_initialized = 0
    /\ log_file_handler = "none"
    /\ update_returned = <<>>
    /\ returned_count = 0
    /\ read_failed = FALSE

\* a run of the link updater: any files on disk, any open workbooks, any options
LUInit ==
    /\ disk \in [Paths -> {Missing} \cup Times]
    /\ Workbooks \in DistinctSeqs(Paths, 0, MaxWbs)
    /\ CHECK_DAYS \in 1..MaxDays
    /\ SAVE_LOG \in BOOLEAN
    /\ LUIdle

\* the link updater is not run
LUUnused ==
    /\ disk = [path \in Paths |-> Missing]
    /\ Workbooks = <<>>
    /\ CHECK_DAYS = 1
    /\ SAVE_LOG = FALSE
    /\ LUIdle

\* lines 10-24, setup_excel (37-43) and lines 70-78: the log file is opened,
\* COM is initialised and Excel is dispatched; a failed Dispatch is re-raised
\* out of run_excel_link_update
LU_Start ==
    /\ lu_pc = "idle"
    /\ log_file_handler' = IF SAVE_LOG THEN "open" ELSE "none"
    /\ com_initialized' = com_initialized + 1
    /\ \E dispatch_ok \in BOOLEAN :
         IF dispatch_ok
         THEN /\ threshold_date' = Now - CHECK_DAYS
              /\ lu_pc' = "count"
         ELSE /\ lu_pc' = "raised"
              /\ UNCHANGED threshold_date
    /\ UNCHANGED <<disk, Workbooks, CHECK_DAYS, SAVE_LOG, total_workbooks,
                   total_updated, workbook_index, links, link_index,
                   updated_links, update_index, events>>
    /\ UNCHANGED luHistory
    /\ UNCHANGED restLU

\* lines 80-86: excel.Workbooks.Count; an exception goes to the outer except
LU_Count ==
    /\ lu_pc = "count"
    /\ \E com_ok \in BOOLEAN :
         IF com_ok
         THEN /\ total_workbooks' = Len(Workbooks)
              /\ lu_pc' = IF Len(Workbooks) = 0 THEN "finally" ELSE "next_wb"
         ELSE /\ lu_pc' = "finally"
              /\ UNCHANGED total_workbooks
    /\ UNCHANGED <<update_returned, returned_count, read_failed>>
    /\ UNCHANGED <<disk, Workbooks, CHECK_DAYS, SAVE_LOG, threshold_date,
                   total_updated, workbook_index, links, link_index,
                   updated_links, update_index, events, com_initialized,
                   log_file_handler>>
    /\ UNCHANGED restLU

\* lines 87-108 and 155-159: the next workbook of the loop; reading its
\* FullName can raise (outer except), LinkSources can raise (inner except:
\* on to the next workbook) or give nothing (continue)
LU_NextWorkbook ==
    /\ lu_pc = "next_wb"
    /\ IF workbook_index >= Len(Workbooks)
       THEN /\ lu_pc' = "finally"
            /\ UNCHANGED <<workbook_index, links, link_index, updated_links,
                           update_index, read_failed>>
       ELSE \E fullname_ok \in BOOLEAN :
              IF ~fullname_ok
              THEN /\ lu_pc' = "finally"
                   /\ workbook_index' = workbook_index + 1
                   /\ read_failed' = FALSE
                   /\ UNCHANGED <<links, link_index, updated_links,
                                  update_index>>
              ELSE \E r \in LinkSourcesResults(Workbooks[workbook_index + 1]),
                      linksources_ok \in BOOLEAN :
                     /\ workbook_index' = workbook_index + 1
                     /\ read_failed' = ~linksources_ok
                     /\ IF ~linksources_ok \/ r = <<>>
                        THEN /\ lu_pc' = "next_wb"
                             /\ UNCHANGED <<links, link_index, updated_links,
                                            update_index>>
                        ELSE /\ lu_pc' = "classify"
                             /\ links' = r
                             /\ link_index' = 0
                             /\ updated_links' = <<>>
                             /\ update_index' = 0
    /\ UNCHANGED <<disk, Workbooks, CHECK_DAYS, SAVE_LOG, threshold_date,
                   total_workbooks, total_updated, events, com_initialized,
                   log_file_handler, returned_count>>
    /\ update_returned' = IF workbook_index < Len(Workbooks) THEN <<>>
                          ELSE update_returned
    /\ UNCHANGED restLU

\* lines 110-136: one iteration of the classification loop; lines 138-153 when
\* the loop is over
LU_Classify ==
    /\ lu_pc = "classify"
    /\ IF link_index < Len(links)
       THEN LET link == links[link_index + 1] IN
            /\ link_index' = link_index + 1
            /\ updated_links' = IF needs_update(link)
                                THEN append_updated(updated_links, link)
                                ELSE updated_links
            /\ events' = Append(events, ClassifyEvent(workbook_index, link))
            /\ UNCHANGED lu_pc
       ELSE /\ lu_pc' = IF updated_links # <<>> THEN "update" ELSE "next_wb"
            /\ UNCHANGED <<link_index, updated_links, events>>
    /\ UNCHANGED <<disk, Workbooks, CHECK_DAYS, SAVE_LOG, threshold_date,
                   total_workbooks, total_updated, workbook_index, links,
                   update_index, com_initialized, log_file_handler>>
    /\ UNCHANGED luHistory
    /\ UNCHANGED restLU

\* lines 145-147, mutated: the total is raised before UpdateLink is called
count_attempted(total, update_ok) == total + 1

\* lines 144-150: total_updated += 1 follows UpdateLink in the try block, so
\* it is skipped when UpdateLink raises
count_update(total, update_ok) == IF update_ok THEN total + 1 ELSE total

\* lines 142-150: one UpdateLink call; a failed call is logged and the loop
\* goes on
LU_Update ==
    /\ lu_pc = "update"
    /\ IF update_index < Len(updated_links)
       THEN /\ update_index' = update_index + 1
            /\ events' = Append(events,
                   UpdateEvent(workbook_index, updated_links[update_index + 1]))
            /\ \E update_ok \in BOOLEAN :
                 /\ total_updated' = count_update(total_updated, update_ok)
                 /\ update_returned' = Append(update_returned, update_ok)
                 /\ returned_count' = IF update_ok THEN returned_count + 1
                                      ELSE returned_count
            /\ UNCHANGED lu_pc
       ELSE /\ lu_pc' = "next_wb"
            /\ UNCHANGED <<update_index, events, total_updated,
                           update_returned, returned_count>>
    /\ UNCHANGED <<disk, Workbooks, CHECK_DAYS, SAVE_LOG, threshold_date,
                   total_workbooks, workbook_index, links, link_index,
                   updated_links, com_initialized, log_file_handler,
                   read_failed>>
    /\ UNCHANGED restLU

\* lines 161-190: the summary, CoUninitialize and the log file's close
LU_Finally ==
    /\ lu_pc = "finally"
    /\ com_initialized' = com_initialized - 1
    /\ log_file_handler' = IF log_file_handler = "open" THEN "closed"
                           ELSE log_file_handler
    /\ lu_pc' = "done"
    /\ UNCHANGED <<disk, Workbooks, CHECK_DAYS, SAVE_LOG, threshold_date,
                   total_workbooks, total_updated, workbook_index, links,
                   link_index, updated_links, update_index, events>>
    /\ UNCHANGED luHistory
    /\ UNCHANGED restLU

LUNext ==
    \/ LU_Start
    \/ LU_Count
    \/ LU_NextWorkbook
    \/ LU_Classify
    \/ LU_Update
    \/ LU_Finally

(***************************************************************************)
(* EXTERNAL LINKS MANAGER  (src/core/external_links_manager.py)            *)
(*                                                                         *)
(* A string the manager takes apart or searches (a path, a formula, a      *)
(* workbook name, a keyword) is a sequence of symbols.  A symbol stands    *)
(* for one character, or for a run of characters the code never splits     *)
(* (an extension such as ".xlsx", the prefix "LinkSource: ").              *)
(*                                                                         *)
(* scan_open_workbooks runs in a worker thread (external_links_dialog.py,  *)
(* lines 169-181); nothing keeps a second scan from starting while one is  *)
(* running.  A scanner's steps are delimited by its calls into Excel: the  *)
(* in-memory work between two calls is one step.  A call the dialog makes  *)
(* on the UI thread (search, statistics, export) is in memory only: it is  *)
(* one step, `view` holds its result until the dialog's handler returns,   *)
(* and a scanner's step comes before or after it.                          *)
(***************************************************************************)
\* a scan sees at most MaxScanWbs workbooks
MaxScanWbs == 1

\* the calls of scan_open_workbooks, each in a thread of its own: the scan the
\* dialog starts when it opens and one started by its Rescan button
Scanners == {"scan1", "scan2"}

\* str.lower() of one symbol
Lower(c) ==
    CASE c = "A" -> "a"
      [] c = "B" -> "b"
      [] c = "W" -> "w"
      [] c = "X" -> "x"
      [] c = ".XLSX" -> ".xlsx"
      [] OTHER -> c

\* str.lower()
LowerStr(str) == [i \in 1..Len(str) |-> Lower(str[i])]

\* Python's `needle in hay` for strings
Contains(hay, needle) ==
    \E i \in 0..(Len(hay) - Len(needle)) :
        SubSeq(hay, i + 1, i + Len(needle)) = needle

Min(S) == CHOOSE x \in S : \A y \in S : x <= y
Max(S) == CHOOSE x \in S : \A y \in S : x >= y

\* the path separators _extract_filename_from_path splits at
Separators == {"\\", "/"}

\* _extract_filename_from_path: what follows the last backslash and, in that,
\* what follows the last slash
extract_filename_from_path(file_path) ==
    LET after(str, sep) ==
            LET at == {i \in 1..Len(str) : str[i] = sep}
            IN IF at = {} THEN str ELSE SubSeq(str, Max(at) + 1, Len(str))
    IN IF \E i \in 1..Len(file_path) : file_path[i] \in Separators
       THEN after(after(file_path, "\\"), "/")
       ELSE file_path

\* _has_external_reference
has_external_reference(formula) ==
    /\ "[" \in Range(formula)
    /\ "]" \in Range(formula)
    /\ \E ext \in {".xlsx", ".xls", ".xlsm"} : ext \in Range(LowerStr(formula))

\* the extensions the pattern \.xlsx?m? matches, ignoring case
PatternExtensions == {".xls", ".xlsx", ".xlsm", ".xlsxm"}

\* re.findall(r'\[([^\]]+\.xlsx?m?)\]', formula, re.IGNORECASE) from position i
\* on: a "[", at least one symbol other than "]", an extension, then "]"
RECURSIVE findall_from(_, _)
findall_from(formula, i) ==
    IF i > Len(formula) THEN <<>>
    ELSE IF formula[i] # "[" THEN findall_from(formula, i + 1)
    ELSE LET closes == {j \in (i + 1)..Len(formula) : formula[j] = "]"}
         IN IF closes = {} THEN findall_from(formula, i + 1)
            ELSE LET j == Min(closes)
                     content == SubSeq(formula, i + 1, j - 1)
                 IN IF /\ Len(content) >= 2
                       /\ Lower(content[Len(content)]) \in PatternExtensions
                    THEN <<content>> \o findall_from(formula, j + 1)
                    ELSE findall_from(formula, i + 1)

\* _extract_external_files_from_formula, before list(set(...)) fixes an order:
\* the set of the file names
extract_external_files_from_formula(formula) ==
    LET matches == findall_from(formula, 1)
    IN {extract_filename_from_path(matches[i]) : i \in 1..Len(matches)}

ExternalLink(wb, sheet, cell, target, formula, type) ==
    [source_workbook |-> wb, source_sheet |-> sheet, source_cell |-> cell,
     target_file |-> target, formula |-> formula, link_type |-> type]

\* _is_duplicate_link
is_duplicate_link(existing_links, sheet, cell, target_file) ==
    \E i \in 1..Len(existing_links) :
        /\ existing_links[i].source_sheet = sheet
        /\ existing_links[i].source_cell = cell
        /\ existing_links[i].target_file = target_file

\* lines 74-91, Method 1: one LinkSource link per link source; an exception
\* raised by LinkSources is swallowed
method1_links(workbook_name, wb) ==
    IF wb.m1_raises THEN <<>>
    ELSE [i \in 1..Len(wb.link_sources) |->
            ExternalLink(workbook_name, "", "",
                         extract_filename_from_path(wb.link_sources[i]),
                         <<"LinkSource: ">> \o wb.link_sources[i],
                         "LinkSource")]

\* lines 108-120: the links one cell adds, its files taken in the order `order`
RECURSIVE cell_links(_, _, _, _)
cell_links(workbook_links, workbook_name, cell, order) ==
    IF order = <<>> THEN workbook_links
    ELSE LET ext_file == Head(order)
             next == IF is_duplicate_link(workbook_links, cell.sheet,
                                          cell.address, ext_file)
                     THEN workbook_links
                     ELSE Append(workbook_links,
                                 ExternalLink(workbook_name, cell.sheet,
                                              cell.address, ext_file,
                                              cell.formula, "Formula"))
         IN cell_links(next, workbook_name, cell, Tail(order))

\* the orders list(set(files)) can give
SetOrders(S) == DistinctSeqs(S, Cardinality(S), Cardinality(S))

\* lines 93-124, Method 2 over the first n cells: the possible values of
\* workbook_links (one per order in which the sets are listed).  A cell whose
\* properties raise is skipped (line 121).
RECURSIVE method2_links(_, _, _, _)
method2_links(workbook_links, workbook_name, cells, n) ==
    IF n = 0 THEN {workbook_links}
    ELSE LET cell == cells[n]
             before == method2_links(workbook_links, workbook_name, cells, n - 1)
         IN IF cell.state = "formula" /\ has_external_reference(cell.formula)
            THEN UNION {
                   {cell_links(b, workbook_name, cell, order) :
                      order \in SetOrders(
                          extract_external_files_from_formula(cell.formula))} :
                   b \in before}
            ELSE before

TargetFiles(list) == {list[i].target_file : i \in 1..Len(list)}

\* mutant of group_append: a file's later link replaces its earlier ones
group_replace(file_groups, link) ==
    IF link.target_file \in DOMAIN file_groups
    THEN [file_groups EXCEPT ![link.target_file] = <<link>>]
    ELSE file_groups @@ (link.target_file :> <<link>>)

\* lines 184-185 and 246-247: file_groups[link.target_file].append(link)
group_append(file_groups, link) ==
    IF link.target_file \in DOMAIN file_groups
    THEN [file_groups EXCEPT ![link.target_file] = Append(@, link)]
    ELSE file_groups @@ (link.target_file :> <<link>>)

RECURSIVE file_groups_of(_)
file_groups_of(list) ==
    IF list = <<>> THEN <<>>
    ELSE group_append(file_groups_of(SubSeq(list, 1, Len(list) - 1)),
                      list[Len(list)])

\* _group_links_by_external_file and lines 244-258 of
\* get_grouped_search_results: the ExternalFileGroup of every file
group_links(list) ==
    LET file_groups == file_groups_of(list)
    IN [external_file \in DOMAIN file_groups |->
          [external_file |-> external_file,
           links |-> file_groups[external_file],
           reference_count |-> Len(file_groups[external_file])]]

\* mutant of keyword_lower: the keyword is compared as typed
keyword_as_typed(keyword) == keyword

\* line 209: keyword_lower = keyword.lower()
keyword_lower(keyword) == LowerStr(keyword)

\* lines 213-224: whether the link matches
link_matches(link, keyword, search_field) ==
    LET kw == keyword_lower(keyword) IN
    CASE search_field = "external_file" ->
             Contains(LowerStr(link.target_file), kw)
      [] search_field = "formula" ->
             Contains(LowerStr(link.formula), kw)
      [] search_field = "source_workbook" ->
             Contains(LowerStr(link.source_workbook), kw)
      [] search_field = "all" ->
             \/ Contains(LowerStr(link.target_file), kw)
             \/ Contains(LowerStr(link.formula), kw)
             \/ Contains(LowerStr(link.source_workbook), kw)
      [] OTHER -> FALSE

\* search_links
search_links(keyword, search_field) ==
    IF keyword = <<>> THEN external_links
    ELSE SelectSeq(external_links,
                   LAMBDA link : link_matches(link, keyword, search_field))

\* get_grouped_search_results
get_grouped_search_results(keyword, search_field) ==
    group_links(search_links(keyword, search_field))

\* get_statistics
get_statistics ==
    [total_links |-> Len(external_links),
     unique_external_files |-> Cardinality(TargetFiles(external_links)),
     unique_source_workbooks |->
         Cardinality({external_links[i].source_workbook :
                         i \in 1..Len(external_links)}),
     link_sources |->
         Cardinality({i \in 1..Len(external_links) :
                         external_links[i].link_type = "LinkSource"}),
     formula_links |->
         Cardinality({i \in 1..Len(external_links) :
                         external_links[i].link_type = "Formula"})]

\* export_to_dict
export_to_dict ==
    [i \in 1..Len(external_links) |->
        [SourceWorkbook |-> external_links[i].source_workbook,
         SourceSheet |-> external_links[i].source_sheet,
         SourceCell |-> external_links[i].source_cell,
         ExternalFile |-> external_links[i].target_file,
         Formula |-> external_links[i].formula,
         LinkType |-> external_links[i].link_type]]

(***************************************************************************)
(* What Excel can hold during a scan.                                      *)
(***************************************************************************)
\* workbook.Name of the workbooks, in the order of excel.Workbooks
WorkbookNames == << <<"w", "A", ".xlsx">>, <<"W", "b", ".xlsx">>,
                    <<"w", "c", ".xlsx">> >>

\* two files of the same name in two folders, as LinkSources returns them
PathXA == <<"x", "\\", "a", ".xlsx">>
PathYA == <<"y", "/", "a", ".xlsx">>

\* formulas: one reference; the same file referred to with and without its
\* folder; two files; brackets and an extension but no reference
FormulaOne == <<"=", "[", "a", ".xlsx", "]", "!">>
FormulaSame == <<"=", "[", "x", "\\", "a", ".xlsx", "]", "+", "[", "a", ".xlsx", "]">>
FormulaTwo == <<"=", "[", "a", ".xlsx", "]", "+", "[", "B", ".XLSX", "]">>
FormulaNone == <<"=", "[", "a", "]", ".xlsx">>

\* a used cell: it holds a formula ("formula"), holds none ("plain"), or
\* reading it raises ("raises")
Cell(address, state, formula) ==
    [sheet |-> "Sheet1", address |-> address, state |-> state,
     formula |-> formula]

\* an open workbook as a scan finds it: what LinkSources returns, whether it
\* raises instead, the used cells, and the cell before which walking the
\* worksheets raises (0: it does not raise)
Content(link_sources, m1_raises, cells, m2_raises_at) ==
    [link_sources |-> link_sources, m1_raises |-> m1_raises, cells |-> cells,
     m2_raises_at |-> m2_raises_at]

WorkbookContents == {
    Content(<<PathXA, PathYA>>, FALSE, <<>>, 0),
    Content(<<PathXA>>, FALSE, <<Cell("$A$1", "formula", FormulaTwo)>>, 0),
    Content(<<PathYA>>, TRUE, <<Cell("$A$1", "raises", <<>>),
                                Cell("$A$2", "plain", <<>>),
                                Cell("$A$3", "formula", FormulaNone),
                                Cell("$A$4", "formula", FormulaSame)>>, 0),
    Content(<<PathXA>>, FALSE, <<Cell("$A$1", "formula", FormulaOne)>>, 2) }

(***************************************************************************)
(* The manager's operations.                                               *)
(***************************************************************************)
NoView == [op |-> "none", keyword |-> <<>>, field |-> "", result |-> <<>>]

InitialStatistics ==
    [total_workbooks |-> 0, workbooks_with_links |-> 0, total_links |-> 0,
     unique_external_files |-> 0]

NoResult == [call |-> "none", links |-> <<>>, statistics |-> InitialStatistics]

ScanInit ==
    /\ external_links = <<>>
    /\ grouped_links = <<>>
    /\ scan_pc = [t \in Scanners |-> "idle"]
    /\ statistics = [t \in Scanners |-> InitialStatistics]
    /\ workbooks_with_links = [t \in Scanners |-> {}]
    /\ external_files = [t \in Scanners |-> {}]
    /\ scan_com = [t \in Scanners |-> 0]
    /\ scan_result = NoResult
    /\ scan_found = <<>>
    /\ latest_scan = "none"
    /\ method1_found = <<>>
    /\ view = NoView

\* lines 55-67: the call starts: CoInitialize, the list and the statistics are
\* reset
ScanStart(t) ==
    /\ view.op = "none"
    /\ scan_pc[t] = "idle"
    /\ scan_com' = [scan_com EXCEPT ![t] = @ + 1]
    /\ external_links' = <<>>
    /\ statistics' = [statistics EXCEPT ![t] = InitialStatistics]
    /\ workbooks_with_links' = [workbooks_with_links EXCEPT ![t] = {}]
    /\ external_files' = [external_files EXCEPT ![t] = {}]
    /\ scan_found' = <<>>
    /\ latest_scan' = t
    /\ method1_found' = <<>>
    /\ scan_pc' = [scan_pc EXCEPT ![t] = "loop"]
    /\ UNCHANGED <<view, grouped_links, scan_result>>
    /\ UNCHANGED restScan

\* lines 69-129: one workbook of the loop
ScanWorkbook(t) ==
    /\ view.op = "none"
    /\ scan_pc[t] = "loop"
    /\ statistics[t].total_workbooks < MaxScanWbs
    /\ \E wb \in WorkbookContents :
         LET workbook_name == WorkbookNames[statistics[t].total_workbooks + 1]
             m1 == method1_links(workbook_name, wb)
             raises == wb.m2_raises_at \in 1..(Len(wb.cells) + 1)
             n == IF raises THEN wb.m2_raises_at - 1 ELSE Len(wb.cells)
         IN \E workbook_links \in method2_links(m1, workbook_name, wb.cells, n) :
              /\ statistics' = [statistics EXCEPT ![t].total_workbooks = @ + 1]
              /\ external_files' = [external_files EXCEPT
                                       ![t] = @ \cup TargetFiles(workbook_links)]
              /\ method1_found' = IF t = latest_scan
                                   THEN method1_found \o m1
                                   ELSE method1_found
              /\ IF raises \/ workbook_links = <<>>
                 THEN UNCHANGED <<workbooks_with_links, external_links,
                                  scan_found>>
                 ELSE /\ workbooks_with_links' =
                           [workbooks_with_links EXCEPT
                               ![t] = @ \cup {workbook_name}]
                      /\ external_links' = external_links \o workbook_links
                      /\ scan_found' = IF t = latest_scan
                                       THEN scan_found \o workbook_links
                                       ELSE scan_found
    /\ UNCHANGED <<view, grouped_links, scan_pc, scan_com, scan_result,
                   latest_scan>>
    /\ UNCHANGED restScan

\* lines 131-137: the loop is over and the statistics are updated, or a call
\* into Excel raised (Dispatch, the enumeration of excel.Workbooks, a
\* workbook's Name) and the outer except is taken
ScanLoopEnd(t) ==
    /\ view.op = "none"
    /\ scan_pc[t] = "loop"
    /\ \E com_ok \in BOOLEAN :
         statistics' =
            IF com_ok
            THEN [statistics EXCEPT
                    ![t].workbooks_with_links =
                        Cardinality(workbooks_with_links[t]),
                    ![t].total_links = Len(external_links),
                    ![t].unique_external_files =
                        Cardinality(external_files[t])]
            ELSE statistics
    /\ scan_pc' = [scan_pc EXCEPT ![t] = "finish"]
    /\ UNCHANGED <<view, external_links, grouped_links, workbooks_with_links,
                   external_files, scan_com, scan_result, scan_found,
                   latest_scan,
                   method1_found>>
    /\ UNCHANGED restScan

\* lines 138-144: CoUninitialize, the grouping, the return; the call's
\* locals end with it
ScanFinish(t) ==
    /\ view.op = "none"
    /\ scan_pc[t] = "finish"
    /\ scan_com' = [scan_com EXCEPT ![t] = @ - 1]
    /\ grouped_links' = group_links(external_links)
    /\ scan_result' = [call |-> t, links |-> external_links,
                       statistics |-> statistics[t]]
    /\ statistics' = [statistics EXCEPT ![t] = InitialStatistics]
    /\ workbooks_with_links' = [workbooks_with_links EXCEPT ![t] = {}]
    /\ external_files' = [external_files EXCEPT ![t] = {}]
    /\ scan_pc' = [scan_pc EXCEPT ![t] = "returned"]
    /\ UNCHANGED <<view, external_links, scan_found, latest_scan,
                   method1_found>>
    /\ UNCHANGED restScan

\* the keywords and fields the dialog can pass
Keywords == { <<>>, <<"A">>, <<"x", "\\">> }
SearchFields == {"external_file", "formula", "source_workbook", "all", "sheet"}

\* the dialog calls search_links
SearchLinks(keyword, search_field) ==
    /\ view.op = "none"
    /\ view' = [op |-> "search_links", keyword |-> keyword,
                field |-> search_field,
                result |-> search_links(keyword, search_field)]
    /\ UNCHANGED <<external_links, grouped_links, scan_pc, statistics,
                   workbooks_with_links, external_files, scan_com,
                   scan_result, scan_found, latest_scan,
                   method1_found>>
    /\ UNCHANGED restScan

\* the dialog calls get_grouped_search_results
GroupedSearch(keyword, search_field) ==
    /\ view.op = "none"
    /\ view' = [op |-> "get_grouped_search_results", keyword |-> keyword,
                field |-> search_field,
                result |-> get_grouped_search_results(keyword, search_field)]
    /\ UNCHANGED <<external_links, grouped_links, scan_pc, statistics,
                   workbooks_with_links, external_files, scan_com,
                   scan_result, scan_found, latest_scan,
                   method1_found>>
    /\ UNCHANGED restScan

\* the dialog calls get_statistics
GetStatistics ==
    /\ view.op = "none"
    /\ view' = [op |-> "get_statistics", keyword |-> <<>>, field |-> "",
                result |-> get_statistics]
    /\ UNCHANGED <<external_links, grouped_links, scan_pc, statistics,
                   workbooks_with_links, external_files, scan_com,
                   scan_result, scan_found, latest_scan,
                   method1_found>>
    /\ UNCHANGED restScan

\* the dialog calls export_to_dict
ExportToDict ==
    /\ view.op = "none"
    /\ view' = [op |-> "export_to_dict", keyword |-> <<>>, field |-> "",
                result |-> export_to_dict]
    /\ UNCHANGED <<external_links, grouped_links, scan_pc, statistics,
                   workbooks_with_links, external_files, scan_com,
                   scan_result, scan_found, latest_scan,
                   method1_found>>
    /\ UNCHANGED restScan

\* the dialog has shown the result and its handler returns
DialogReturn ==
    /\ view.op # "none"
    /\ view' = NoView
    /\ UNCHANGED <<external_links, grouped_links, scan_pc, statistics,
                   workbooks_with_links, external_files, scan_com,
                   scan_result, scan_found, latest_scan,
                   method1_found>>
    /\ UNCHANGED restScan

ScanNext ==
    \/ \E t \in Scanners : ScanStart(t)
    \/ \E t \in Scanners : ScanWorkbook(t)
    \/ \E t \in Scanners : ScanLoopEnd(t)
    \/ \E t \in Scanners : ScanFinish(t)
    \/ \E keyword \in Keywords, search_field \in SearchFields :
          SearchLinks(keyword, search_field)
    \/ \E keyword \in Keywords, search_field \in SearchFields :
          GroupedSearch(keyword, search_field)
    \/ GetStatistics
    \/ ExportToDict
    \/ DialogReturn

(***************************************************************************)
(* The session manager (src/core/session_manager.py).                      *)
(*                                                                         *)
(* Save Session and the part of load_session that runs on the UI thread    *)
(* are one step each; the thread load_session starts opens one row per     *)
(* step.                                                                   *)
(***************************************************************************)
\* a Save Session selects at most MaxSelected workbooks
MaxSelected == 2

\* the load_session calls of a run
Loaders == {"load1"}

\* Python's None as a cell value
None == "<None>"

WorkbookPaths == {"p1.xlsx", "p2.xlsx", "p3.xlsx"}

\* the rows of the main window's list the user can select: (name, path,
\* sheet, cell); excel_manager.py lines 52-57 give "" for a workbook without
\* active sheet or active cell and lines 63-66 "Error" for one it cannot read
SelectableWorkbooks == {
    <<"p1.xlsx", "p1.xlsx", "Sheet1", "$A$1">>,
    <<"p2.xlsx", "p2.xlsx", "", "">>,
    <<"Error", "Error", "Error", "Error">> }

Selections == DistinctSeqs(SelectableWorkbooks, 0, MaxSelected)

\* line 84: the header row
HeaderRow == <<"File Path", "Sheet Name", "Cell Address">>

\* what openpyxl keeps of a value appended to the sheet: an empty string is
\* written as an empty cell
WriteCell(value) == IF value = "" THEN None ELSE value

\* lines 87-88: ws.append([path, sheet, cell]) for every selected workbook
WriteRows(selected_workbooks) ==
    [i \in 1..Len(selected_workbooks) |->
        <<WriteCell(selected_workbooks[i][2]),
          WriteCell(selected_workbooks[i][3]),
          WriteCell(selected_workbooks[i][4])>>]

\* mutant of data_rows: the header row is read as well
all_rows(file) == file

\* line 126 and main_window.py line 511: iter_rows(min_row=2, values_only=True)
data_rows(file) == SubSeq(file, 2, Len(file))

\* a session file of an earlier run: a row with sheet and cell, a row with
\* empty cells, a row whose file does not exist, an empty row
EarlierSessionFile ==
    <<HeaderRow,
      <<"p1.xlsx", "Sheet1", "$A$1">>,
      <<"p2.xlsx", None, None>>,
      <<"p3.xlsx", "Sheet1", None>>,
      <<None, None, None>>>>

\* line 127: all_file_paths = [r[0] for r in rows if r and r[0]]
all_file_paths(rows) ==
    LET with_path == SelectSeq(rows, LAMBDA r : r[1] # None)
    IN [i \in 1..Len(with_path) |-> with_path[i][1]]

\* mutant of valid_file_paths: the paths are not checked
unchecked_file_paths(paths) == paths

\* line 128: valid_file_paths = [path for path in all_file_paths
\* if os.path.exists(path)]
valid_file_paths(paths) ==
    SelectSeq(paths, LAMBDA path : path \in files_on_disk)

\* lines 149-152: the rows of the selected files
rows_of_selected(rows, selected_files) ==
    SelectSeq(rows, LAMBDA r : r[1] # None /\ r[1] \in selected_files)

NoSave == [status |-> "none", selected |-> <<>>, read_back |-> <<>>]

NoLoad ==
    [had_open |-> FALSE, outcome |-> "none", file_read |-> FALSE,
     rows |-> <<>>, on_disk |-> {}, selected_files |-> {}]

\* nothing saved or loaded yet
SessIdle ==
    /\ last_save = NoSave
    /\ load_pc = [t \in Loaders |-> "idle"]
    /\ load_info = [t \in Loaders |-> NoLoad]
    /\ selected_rows = [t \in Loaders |-> <<>>]
    /\ load_index = [t \in Loaders |-> 0]
    /\ open_calls = <<>>

SessInit ==
    /\ excel_open \in {{}, {"p1.xlsx"}}
    /\ files_on_disk = {"p1.xlsx", "p2.xlsx"}
    /\ session_file = EarlierSessionFile
    /\ SessIdle

\* the session manager at rest, for the specifications of the other components
SessUnused ==
    /\ excel_open = {}
    /\ files_on_disk = {}
    /\ session_file = EarlierSessionFile
    /\ SessIdle

\* the outcome of a Save Session that wrote no file
NotSaved(status) == [status |-> status, selected |-> <<>>, read_back |-> <<>>]

\* main_window.py lines 329-336 with save_session and _save_session_impl:
\* nothing is selected, or the file dialog is cancelled, or the write fails,
\* or the file is written and load_session_from_path reads it back
SaveSession(selected_workbooks) ==
    /\ IF selected_workbooks = <<>>
       THEN /\ last_save' = NotSaved("no_selection")
            /\ UNCHANGED session_file
       ELSE \E file_path_given, save_ok \in BOOLEAN :
              IF ~file_path_given
              THEN /\ last_save' = NotSaved("cancelled")
                   /\ UNCHANGED session_file
              ELSE IF ~save_ok
              THEN /\ last_save' = NotSaved("failed")
                   /\ UNCHANGED session_file
              ELSE /\ session_file' =
                         <<HeaderRow>> \o WriteRows(selected_workbooks)
                   /\ last_save' = [status |-> "saved",
                                    selected |-> selected_workbooks,
                                    read_back |-> data_rows(session_file')]
    /\ UNCHANGED <<excel_open, files_on_disk, load_pc, load_info,
                   selected_rows, load_index, open_calls>>
    /\ UNCHANGED restSess

\* excel_manager.py lines 33-78, get_open_workbooks: one entry per open
\* workbook ("Error" for a workbook that cannot be read), and no entry at all
\* when connecting to Excel or enumerating its workbooks raises (lines 67-69)
get_open_workbooks(com_ok) ==
    IF com_ok THEN excel_open ELSE {}

\* load_session up to the start of its thread (lines 99-174)
LoadSession(t) ==
    /\ load_pc[t] = "idle"
    /\ LET rows == data_rows(session_file)
           valid == valid_file_paths(all_file_paths(rows))
           info == [NoLoad EXCEPT !.had_open = (excel_open # {}),
                                  !.on_disk = files_on_disk]
           returns(outcome, file_read) ==
               /\ load_info' = [load_info EXCEPT
                                   ![t] = [info EXCEPT
                                             !.outcome = outcome,
                                             !.file_read = file_read,
                                             !.rows = IF file_read THEN rows
                                                      ELSE <<>>]]
               /\ load_pc' = [load_pc EXCEPT ![t] = "returned"]
               /\ UNCHANGED <<selected_rows, load_index>>
       IN \E com_ok \in BOOLEAN :
            IF get_open_workbooks(com_ok) # {}
            THEN returns("warning_close_files", FALSE)
            ELSE \/ returns("no_file", FALSE)
                 \/ /\ valid = <<>>
                    /\ returns("warning_no_valid_paths", TRUE)
                 \/ /\ valid # <<>>
                    /\ returns("cancelled", TRUE)
                 \/ /\ valid # <<>>
                    /\ \E selected_files \in (SUBSET Range(valid)) \ {{}} :
                         /\ load_info' =
                               [load_info EXCEPT
                                   ![t] = [info EXCEPT
                                             !.outcome = "thread_started",
                                             !.file_read = TRUE,
                                             !.rows = rows,
                                             !.selected_files = selected_files]]
                         /\ selected_rows' =
                               [selected_rows EXCEPT
                                   ![t] = rows_of_selected(rows, selected_files)]
                         /\ load_index' = [load_index EXCEPT ![t] = 1]
                         /\ load_pc' = [load_pc EXCEPT ![t] = "thread"]
    /\ UNCHANGED <<excel_open, files_on_disk, session_file, last_save,
                   open_calls>>
    /\ UNCHANGED restSess

\* _load_files_thread, lines 184-200: CoInitialize and Dispatch, which may
\* raise (lines 240-242)
LoadThreadStart(t, dispatch_ok) ==
    /\ load_pc[t] = "thread"
    /\ load_pc' = [load_pc EXCEPT
                      ![t] = IF dispatch_ok /\ selected_rows[t] # <<>>
                             THEN "opening" ELSE "done"]
    /\ UNCHANGED <<excel_open, files_on_disk, session_file, last_save,
                   load_info, selected_rows, load_index, open_calls>>
    /\ UNCHANGED restSess

\* lines 202-234: one row: Workbooks.Open(Filename=path), which opens the
\* workbook or raises
LoadOpen(t, open_ok) ==
    /\ load_pc[t] = "opening"
    /\ LET path == selected_rows[t][load_index[t]][1]
       IN /\ open_calls' = Append(open_calls, [call |-> t, path |-> path])
          /\ excel_open' = IF open_ok /\ path \in files_on_disk
                           THEN excel_open \cup {path}
                           ELSE excel_open
    /\ load_index' = [load_index EXCEPT ![t] = @ + 1]
    /\ load_pc' = [load_pc EXCEPT
                      ![t] = IF load_index[t] = Len(selected_rows[t])
                             THEN "done" ELSE "opening"]
    /\ UNCHANGED <<files_on_disk, session_file, last_save, load_info,
                   selected_rows>>
    /\ UNCHANGED restSess

\* a workbook file is deleted or moved away
FileRemoved(path) ==
    /\ path \in files_on_disk
    /\ files_on_disk' = files_on_disk \ {path}
    /\ UNCHANGED <<excel_open, session_file, last_save, load_pc, load_info,
                   selected_rows, load_index, open_calls>>
    /\ UNCHANGED restSess

SessNext ==
    \/ \E selected_workbooks \in Selections : SaveSession(selected_workbooks)
    \/ \E t \in Loaders : LoadSession(t)
    \/ \E t \in Loaders, dispatch_ok \in BOOLEAN : LoadThreadStart(t, dispatch_ok)
    \/ \E t \in Loaders, open_ok \in BOOLEAN : LoadOpen(t, open_ok)
    \/ \E path \in WorkbookPaths : FileRemoved(path)

(***************************************************************************)
(* The Excel manager's save passes (src/core/excel_manager.py):            *)
(* save_workbooks and save_and_close_workbooks, which main_window.py runs  *)
(* in a worker thread.  A step of the pass is one call into Excel: the     *)
(* lookup of the entry's workbook, one Save, one Close.                    *)
(***************************************************************************)
\* at most MaxOpen workbooks are open in Excel during a pass
MaxOpen == 2
\* at most MaxSaveSelected workbooks are selected for a pass
MaxSaveSelected == 2

\* lines 136 and 231: max_retries = 3
max_retries == 3

\* the names a workbook or a selected entry can have; "Error" is the name
\* get_open_workbooks gives an entry of a workbook it could not read
WorkbookNameSet == {"A.xlsx", "B.xlsx", "C.xlsx"}
SelectableNames == WorkbookNameSet \cup {"Error"}

\* mutant of find_workbook: the first open workbook, whatever its name
find_first_open(names, name) == IF names = <<>> THEN 0 ELSE 1

\* lines 128-132 and 223-227: the position of the first workbook of the
\* collection whose Name equals name, 0 when there is none
find_workbook(names, name) ==
    IF \E i \in 1..Len(names) : names[i] = name
    THEN Min({i \in 1..Len(names) : names[i] = name})
    ELSE 0

\* mutant of retries_left: one more attempt is made
retries_left_one_more(attempt) == attempt < max_retries

\* lines 142 and 237: attempt < max_retries - 1, for the attempt (from 0)
\* that has just failed
retries_left(attempt) == attempt < max_retries - 1

\* mutant of after_last_failure: the exception is swallowed and the pass
\* goes on to Close
after_last_failure_close(op) == IF op = "save_close" THEN "close" ELSE "failed"

\* lines 146 and 241: raise e, which skips the rest of the entry and is
\* reported at lines 160 and 259
after_last_failure(op) == "failed"

SaveCall(entry, name, call, ok) ==
    [entry |-> entry, name |-> name, call |-> call, ok |-> ok]

\* the outcome printed for a selected entry; was_open: a workbook of that name
\* was open when the entry was looked up; lookup: "found", "absent" or
\* "raised"
SaveReport(entry, name, outcome, was_open, lookup) ==
    [entry |-> entry, name |-> name, outcome |-> outcome,
     was_open |-> was_open, lookup |-> lookup]

\* s without its i-th element
RemoveAt(s, i) == SubSeq(s, 1, i - 1) \o SubSeq(s, i + 1, Len(s))

\* no pass has been started
SaveIdle ==
    /\ sv_op = "none"
    /\ sv_selected = <<>>
    /\ sv_pc = "idle"
    /\ sv_idx = 0
    /\ sv_attempt = 0
    /\ sv_calls = <<>>
    /\ sv_report = <<>>
    /\ sv_completed = FALSE
    /\ sv_com = 0

SaveInit ==
    /\ open_names \in DistinctSeqs(WorkbookNameSet, 0, MaxOpen)
    /\ SaveIdle

\* the Excel manager at rest, for the specifications of the other components
SaveUnused ==
    /\ open_names = <<>>
    /\ SaveIdle

\* lines 160-161 and 258-259, mutated: the entry's exception is not caught
\* in the loop and ends it
SV_AbortLoop ==
    /\ sv_pc' = "finally"
    /\ UNCHANGED <<sv_idx, sv_completed>>

\* the entry after the current one, or the end of the loop (lines 167, 266)
SV_Advance ==
    IF sv_idx = Len(sv_selected)
    THEN /\ sv_pc' = "finally"
         /\ sv_completed' = TRUE
         /\ UNCHANGED sv_idx
    ELSE /\ sv_pc' = "find"
         /\ sv_idx' = sv_idx + 1
         /\ UNCHANGED sv_completed

\* lines 80-118 and 176-213: the call with its selection; nothing is done for
\* an empty selection; CoInitialize and Dispatch, which may raise (lines
\* 169-170, 268-269)
SV_Start(op, selected) ==
    /\ sv_pc = "idle"
    /\ sv_op' = op
    /\ sv_selected' = selected
    /\ IF selected = <<>>
       THEN /\ sv_pc' = "done"
            /\ UNCHANGED <<sv_idx, sv_com>>
       ELSE /\ sv_com' = sv_com + 1
            /\ \E dispatch_ok \in BOOLEAN :
                 IF dispatch_ok
                 THEN sv_pc' = "find" /\ sv_idx' = 1
                 ELSE sv_pc' = "finally" /\ UNCHANGED sv_idx
    /\ UNCHANGED <<open_names, sv_attempt, sv_calls, sv_report, sv_completed>>
    /\ UNCHANGED restSave

\* lines 126-132 and 158-161 (221-227 and 256-260): the entry's workbook is
\* looked up by name; the enumeration may raise, which is reported as a
\* failure of the entry
SV_Find ==
    /\ sv_pc = "find"
    /\ LET name == sv_selected[sv_idx]
           was_open == name \in Range(open_names)
       IN \E com_ok \in BOOLEAN :
            IF ~com_ok
            THEN /\ sv_report' = Append(sv_report,
                        SaveReport(sv_idx, name, "failed", was_open, "raised"))
                 /\ SV_Advance
                 /\ UNCHANGED sv_attempt
            ELSE IF find_workbook(open_names, name) = 0
            THEN /\ sv_report' = Append(sv_report,
                        SaveReport(sv_idx, name, "not_found", was_open, "absent"))
                 /\ SV_Advance
                 /\ UNCHANGED sv_attempt
            ELSE /\ sv_pc' = "save"
                 /\ sv_attempt' = 0
                 /\ UNCHANGED <<sv_report, sv_idx, sv_completed>>
    /\ UNCHANGED <<open_names, sv_op, sv_selected, sv_calls, sv_com>>
    /\ UNCHANGED restSave

\* lines 134-146 (229-241): one wb.Save() of the retry loop
SV_Save ==
    /\ sv_pc = "save"
    /\ LET name == sv_selected[sv_idx]
           wb == open_names[find_workbook(open_names, name)]
       IN \E ok \in BOOLEAN :
            /\ sv_calls' = Append(sv_calls, SaveCall(sv_idx, wb, "Save", ok))
            /\ IF ok
               THEN IF sv_op = "save_close"
                    THEN /\ sv_pc' = "close"
                         /\ UNCHANGED <<sv_report, sv_idx, sv_completed,
                                        sv_attempt>>
                    ELSE /\ sv_report' = Append(sv_report,
                                SaveReport(sv_idx, name, "saved", TRUE, "found"))
                         /\ SV_Advance
                         /\ UNCHANGED sv_attempt
               ELSE IF retries_left(sv_attempt)
               THEN /\ sv_attempt' = sv_attempt + 1
                    /\ UNCHANGED <<sv_pc, sv_report, sv_idx, sv_completed>>
               ELSE IF after_last_failure(sv_op) = "close"
               THEN /\ sv_pc' = "close"
                    /\ UNCHANGED <<sv_report, sv_idx, sv_completed, sv_attempt>>
               ELSE /\ sv_report' = Append(sv_report,
                           SaveReport(sv_idx, name, "failed", TRUE, "found"))
                    /\ SV_Advance
                    /\ UNCHANGED sv_attempt
    /\ UNCHANGED <<open_names, sv_op, sv_selected, sv_com>>
    /\ UNCHANGED restSave

\* lines 248-260: wb.Close(SaveChanges=False), which closes the workbook or
\* raises
SV_Close ==
    /\ sv_pc = "close"
    /\ LET name == sv_selected[sv_idx]
           at == find_workbook(open_names, name)
           wb == open_names[at]
       IN \E ok \in BOOLEAN :
            /\ sv_calls' = Append(sv_calls, SaveCall(sv_idx, wb, "Close", ok))
            /\ open_names' = IF ok THEN RemoveAt(open_names, at) ELSE open_names
            /\ sv_report' = Append(sv_report,
                   SaveReport(sv_idx, name, IF ok THEN "saved" ELSE "failed",
                              TRUE, "found"))
            /\ SV_Advance
    /\ UNCHANGED <<sv_op, sv_selected, sv_attempt, sv_com>>
    /\ UNCHANGED restSave

\* lines 171-173 and 270-272: CoUninitialize
SV_Finally ==
    /\ sv_pc = "finally"
    /\ sv_com' = sv_com - 1
    /\ sv_pc' = "done"
    /\ UNCHANGED <<open_names, sv_op, sv_selected, sv_idx, sv_attempt,
                   sv_calls, sv_report, sv_completed>>
    /\ UNCHANGED restSave

SaveNext ==
    \/ \E op \in {"save", "save_close"},
          selected \in DistinctSeqs(SelectableNames, 0, MaxSaveSelected) :
          SV_Start(op, selected)
    \/ SV_Find
    \/ SV_Save
    \/ SV_Close
    \/ SV_Finally

(***************************************************************************)
(* The process manager: cleanup_zombie_excel_processes                     *)
(* (src/core/process_manager.py).  The operating system's processes change *)
(* while the cleanup runs: a process exits, a zombie is reaped.            *)
(***************************************************************************)
\* the pids process_iter goes through
MaxProcs == 2

Pids == 1..MaxProcs

\* process names, as sequences of symbols
ExcelUpperExe == <<"EXCEL", ".EXE">>
ExcelLowerExe == <<"excel", ".exe">>
NotepadExe == <<"notepad", ".exe">>
ProcessNames == {ExcelUpperExe, ExcelLowerExe, NotepadExe}

\* what a process is: "running" and "sleeping" are a live process's statuses,
\* "zombie" is psutil.STATUS_ZOMBIE, "gone" a pid with no process
LiveStates == {"running", "sleeping"}
ProcessStates == LiveStates \cup {"zombie", "gone"}

\* str.lower() of one symbol of a process name
lower_symbol(c) ==
    CASE c = "EXCEL" -> "excel"
      [] c = ".EXE" -> ".exe"
      [] OTHER -> c

\* line 46, mutated: any process with a name
is_any_name(name) == name # <<>>

\* line 46: proc.info['name'] and 'excel' in proc.info['name'].lower()
is_excel_name(name) ==
    /\ name # <<>>
    /\ Contains([i \in 1..Len(name) |-> lower_symbol(name[i])], <<"excel">>)

\* Process.is_running(): false once the process is gone (a zombie is running)
is_running(pid) == processes[pid].state # "gone"

\* a terminate or kill call: the process it was made on and what that process
\* was when the call was made
ProcCall(pid, call, after) ==
    [pid |-> pid, call |-> call, name |-> processes[pid].name,
     state |-> processes[pid].state, after |-> after]

NoInfo == [name |-> <<>>, status |-> "none"]

ProcIdle ==
    /\ pz_pc = "idle"
    /\ pz_idx = 0
    /\ pz_info = NoInfo
    /\ pz_exc = "none"
    /\ pz_calls = <<>>
    /\ cleaned_count = 0

ProcInit ==
    /\ processes \in [Pids -> [name : ProcessNames,
                               state : ProcessStates \ {"gone"}]]
    /\ ProcIdle

\* the component at rest, for the specifications of the other components
ProcUnused ==
    /\ processes = [pid \in Pids |-> [name |-> NotepadExe, state |-> "gone"]]
    /\ ProcIdle

\* lines 40-41: the cleanup starts
PZ_Start ==
    /\ pz_pc = "idle"
    /\ pz_pc' = "iter"
    /\ UNCHANGED <<processes, pz_idx, pz_info, pz_exc, pz_calls, cleaned_count>>
    /\ UNCHANGED restProc

\* line 44: process_iter(['pid', 'name', 'status']) yields the next process
\* with a snapshot of the three attributes; it leaves out a pid whose process
\* is gone, and a name it may not read is None
PZ_Iter ==
    /\ pz_pc = "iter"
    /\ IF pz_idx = MaxProcs
       THEN /\ pz_pc' = "done"
            /\ UNCHANGED <<pz_idx, pz_info>>
       ELSE /\ pz_idx' = pz_idx + 1
            /\ IF processes[pz_idx + 1].state = "gone"
               THEN /\ pz_pc' = "iter"
                    /\ pz_info' = NoInfo
               ELSE \E name_readable \in BOOLEAN :
                      /\ pz_pc' = "check"
                      /\ pz_info' =
                           [name |-> IF name_readable
                                     THEN processes[pz_idx + 1].name
                                     ELSE <<>>,
                            status |-> processes[pz_idx + 1].state]
    /\ UNCHANGED <<processes, pz_exc, pz_calls, cleaned_count>>
    /\ UNCHANGED restProc

\* lines 46-48 and 60: the tests on the snapshot, and is_running() on the
\* process as it is now
PZ_Check ==
    /\ pz_pc = "check"
    /\ pz_pc' = IF ~is_excel_name(pz_info.name) THEN "iter"
                ELSE IF pz_info.status = "zombie" THEN "terminate"
                ELSE IF ~is_running(pz_idx) THEN "terminate_gone"
                ELSE "iter"
    /\ UNCHANGED <<processes, pz_idx, pz_info, pz_exc, pz_calls, cleaned_count>>
    /\ UNCHANGED restProc

\* line 50: proc.terminate() in the zombie branch; NoSuchProcess goes to the
\* handler at line 54, AccessDenied to the one at line 67
PZ_Terminate ==
    /\ pz_pc = "terminate"
    /\ pz_calls' = Append(pz_calls, ProcCall(pz_idx, "terminate", "none"))
    /\ IF ~is_running(pz_idx)
       THEN /\ pz_pc' = "kill"
            /\ pz_exc' = "NoSuchProcess"
       ELSE \E access_denied \in BOOLEAN :
              /\ pz_pc' = IF access_denied THEN "iter" ELSE "wait"
              /\ UNCHANGED pz_exc
    /\ UNCHANGED <<processes, pz_idx, pz_info, cleaned_count>>
    /\ UNCHANGED restProc

\* lines 51-53: proc.wait(timeout=3) returns when the process is gone and
\* raises TimeoutExpired when it is still there after the timeout
PZ_Wait ==
    /\ pz_pc = "wait"
    /\ IF ~is_running(pz_idx)
       THEN /\ pz_pc' = "iter"
            /\ cleaned_count' = cleaned_count + 1
            /\ UNCHANGED pz_exc
       ELSE /\ pz_pc' = "kill"
            /\ pz_exc' = "TimeoutExpired"
            /\ UNCHANGED cleaned_count
    /\ UNCHANGED <<processes, pz_idx, pz_info, pz_calls>>
    /\ UNCHANGED restProc

\* lines 54-59: proc.kill() in the handler; whatever it raises is passed over
PZ_Kill ==
    /\ pz_pc = "kill"
    /\ pz_calls' = Append(pz_calls, ProcCall(pz_idx, "kill", pz_exc))
    /\ IF ~is_running(pz_idx)
       THEN UNCHANGED cleaned_count
       ELSE \E access_denied \in BOOLEAN :
              cleaned_count' = IF access_denied THEN cleaned_count
                               ELSE cleaned_count + 1
    /\ pz_pc' = "iter"
    /\ pz_exc' = "none"
    /\ UNCHANGED <<processes, pz_idx, pz_info>>
    /\ UNCHANGED restProc

\* lines 60-66: proc.terminate() on a process that is no longer running
\* raises NoSuchProcess, which is passed over
PZ_TerminateGone ==
    /\ pz_pc = "terminate_gone"
    /\ pz_calls' = Append(pz_calls, ProcCall(pz_idx, "terminate", "none"))
    /\ pz_pc' = "iter"
    /\ UNCHANGED <<processes, pz_idx, pz_info, pz_exc, cleaned_count>>
    /\ UNCHANGED restProc

\* the operating system: a live process exits and becomes a zombie or is gone,
\* a zombie is reaped
ProcessChanges(pid) ==
    /\ pz_pc \notin {"idle", "done"}
    /\ processes[pid].state # "gone"
    /\ \E state \in {"zombie", "gone"} :
         /\ state # processes[pid].state
         /\ processes' = [processes EXCEPT ![pid].state = state]
    /\ UNCHANGED <<pz_pc, pz_idx, pz_info, pz_exc, pz_calls, cleaned_count>>
    /\ UNCHANGED restProc

ProcNext ==
    \/ PZ_Start
    \/ PZ_Iter
    \/ PZ_Check
    \/ PZ_Terminate
    \/ PZ_Wait
    \/ PZ_Kill
    \/ PZ_TerminateGone
    \/ \E pid \in Pids : ProcessChanges(pid)

(***************************************************************************)
(* The performance monitor (src/core/performance_monitor.py): the two      *)
(* bounded histories and the calls that append to them, from the           *)
(* application's threads and from the monitor's background thread.         *)
(***************************************************************************)
\* max_history is at most MaxHistory
MaxHistory == 2

\* at most MaxRecorded records are appended to a history
MaxRecorded == 3

\* time.time() goes up to MaxPerfTime
MaxPerfTime == 1

MetricNames == {"cpu_usage"}
Operations == {"save"}

\* deque.append, mutated: a deque without maxlen
append_unbounded(buffer, record, maxlen) == Append(buffer, record)

\* deque(maxlen=...).append: a full deque drops its oldest record
deque_append(buffer, record, maxlen) ==
    IF maxlen = 0 THEN <<>>
    ELSE IF Len(buffer) = maxlen THEN Append(Tail(buffer), record)
    ELSE Append(buffer, record)

\* lines 17-24: a PerformanceMetric
PerformanceMetric(name, value, timestamp, category) ==
    [name |-> name, value |-> value, timestamp |-> timestamp,
     category |-> category]

\* lines 27-35: an OperationTiming
OperationTiming(operation, start_time, end_time, success) ==
    [operation |-> operation, start_time |-> start_time,
     end_time |-> end_time, duration |-> end_time - start_time,
     success |-> success]

\* line 197: f"operation_{timing.operation}"
operation_metric_name(operation) ==
    IF operation = "save" THEN "operation_save" ELSE "operation_other"

\* line 171: operation_id = f"{operation}_{int(time.time() * 1000)}"
operation_id_of(operation, time) == <<operation, time>>

OperationIds == {operation_id_of(o, t) : o \in Operations, t \in 0..MaxPerfTime}

NotActive == [operation |-> "none", start_time |-> 0]

PerfIdle ==
    /\ metrics_history = <<>>
    /\ operation_timings = <<>>
    /\ active_operations = [id \in OperationIds |-> NotActive]
    /\ perf_time = 0
    /\ metrics_recorded = <<>>
    /\ timings_recorded = <<>>

\* lines 46-57: the monitor as constructed
PerfInit ==
    /\ max_history \in 0..MaxHistory
    /\ PerfIdle

\* the component at rest, for the specifications of the other components
PerfUnused ==
    /\ max_history = 0
    /\ PerfIdle

\* lines 145-158: record_metric, as the background thread (lines 105-107) and
\* the application call it
record_metric(name) ==
    /\ Len(metrics_recorded) < MaxRecorded
    /\ LET metric == PerformanceMetric(name, 0, perf_time, "system")
       IN /\ metrics_history' = deque_append(metrics_history, metric, max_history)
          /\ metrics_recorded' = Append(metrics_recorded, metric)
    /\ UNCHANGED <<max_history, operation_timings, active_operations,
                   perf_time, timings_recorded>>
    /\ UNCHANGED restPerf

\* lines 160-178: start_operation
start_operation(operation) ==
    /\ active_operations' =
         [active_operations EXCEPT ![operation_id_of(operation, perf_time)] =
             [operation |-> operation, start_time |-> perf_time]]
    /\ UNCHANGED <<max_history, metrics_history, operation_timings, perf_time,
                   metrics_recorded, timings_recorded>>
    /\ UNCHANGED restPerf

\* lines 180-202: end_operation, which appends the timing and records its
\* duration as a metric; an unknown operation_id changes nothing
end_operation(operation_id, success) ==
    /\ Len(metrics_recorded) < MaxRecorded
    /\ Len(timings_recorded) < MaxRecorded
    /\ IF active_operations[operation_id] # NotActive
       THEN LET started == active_operations[operation_id]
                timing == OperationTiming(started.operation, started.start_time,
                                          perf_time, success)
                metric == PerformanceMetric(operation_metric_name(timing.operation),
                                            timing.duration, perf_time,
                                            "operations")
            IN /\ active_operations' =
                    [active_operations EXCEPT ![operation_id] = NotActive]
               /\ operation_timings' =
                    deque_append(operation_timings, timing, max_history)
               /\ timings_recorded' = Append(timings_recorded, timing)
               /\ metrics_history' =
                    deque_append(metrics_history, metric, max_history)
               /\ metrics_recorded' = Append(metrics_recorded, metric)
       ELSE UNCHANGED <<active_operations, operation_timings, timings_recorded,
                        metrics_history, metrics_recorded>>
    /\ UNCHANGED <<max_history, perf_time>>
    /\ UNCHANGED restPerf

\* time passes
PerfTick ==
    /\ perf_time < MaxPerfTime
    /\ perf_time' = perf_time + 1
    /\ UNCHANGED <<max_history, metrics_history, operation_timings,
                   active_operations, metrics_recorded, timings_recorded>>
    /\ UNCHANGED restPerf

PerfNext ==
    \/ \E name \in MetricNames : record_metric(name)
    \/ \E operation \in Operations : start_operation(operation)
    \/ \E operation_id \in OperationIds, success \in BOOLEAN :
          end_operation(operation_id, success)
    \/ PerfTick

(***************************************************************************)
(* The Excel manager's get_open_workbooks (src/core/excel_manager.py,      *)
(* lines 33-78): four lists built side by side, one workbook at a time.    *)
(* Reading a property of a workbook over COM can raise at any of the       *)
(* reads.                                                                  *)
(***************************************************************************)
\* Excel has at most MaxListed workbooks open
MaxListed == 2

\* wb.FullName of the workbook of a name
FullNameOf(name) ==
    CASE name = "A.xlsx" -> "C:\\A.xlsx"
      [] name = "B.xlsx" -> "C:\\B.xlsx"
      [] OTHER -> "C:\\C.xlsx"

\* the reads of lines 50-58 that can raise, in the order in which they are
\* made; "none" is an iteration in which no read raises
RaisePoints == {"none", "Name", "FullName", "ActiveSheet", "ActiveCell"}

\* lines 50-58: what the try block has appended to file_list, path_list,
\* sheet_list and cell_list when the read raise_at raises; a raise of
\* ActiveCell is caught at line 56 and the cell is ""
appended_before(raise_at, name) ==
    CASE raise_at = "Name" -> <<<<>>, <<>>, <<>>, <<>>>>
      [] raise_at = "FullName" -> <<<<name>>, <<>>, <<>>, <<>>>>
      [] raise_at = "ActiveSheet" -> <<<<name>>, <<FullNameOf(name)>>, <<>>, <<>>>>
      [] OTHER -> <<<<name>>, <<FullNameOf(name)>>, <<"Sheet1">>,
                    <<IF raise_at = "ActiveCell" THEN "" ELSE "$A$1">>>>

\* the reads whose exception reaches the handler at line 59
reaches_handler(raise_at) == raise_at \in {"Name", "FullName", "ActiveSheet"}

ListIdle ==
    /\ gw_pc = "idle"
    /\ gw_idx = 0
    /\ file_list = <<>>
    /\ sheet_list = <<>>
    /\ cell_list = <<>>
    /\ path_list = <<>>
    /\ gw_raised = <<>>
    /\ gw_com = 0

ListInit ==
    /\ gw_workbooks \in DistinctSeqs(WorkbookNameSet, 0, MaxListed)
    /\ ListIdle

\* the component at rest, for the specifications of the other components
ListUnused ==
    /\ gw_workbooks = <<>>
    /\ ListIdle

\* lines 43-47: CoInitialize, the four empty lists, Dispatch; a Dispatch that
\* raises goes to the handler at line 67
GW_Start ==
    /\ gw_pc = "idle"
    /\ gw_com' = gw_com + 1
    /\ \E dispatch_ok \in BOOLEAN :
         gw_pc' = IF dispatch_ok THEN "loop" ELSE "finally"
    /\ UNCHANGED <<gw_workbooks, gw_idx, file_list, sheet_list, cell_list,
                   path_list, gw_raised>>
    /\ UNCHANGED restList

\* lines 48-66: one iteration of the loop over excel.Workbooks.  The handler
\* at line 59 reads wb.Name again for its message: when that read raises, the
\* exception leaves the loop for the handler at line 67.
GW_Workbook ==
    /\ gw_pc = "loop"
    /\ gw_idx < Len(gw_workbooks)
    /\ \E raise_at \in RaisePoints, handler_ok \in BOOLEAN :
         LET name == gw_workbooks[gw_idx + 1]
             before == appended_before(raise_at, name)
             error == IF reaches_handler(raise_at) /\ handler_ok
                      THEN <<"Error">> ELSE <<>>
         IN /\ raise_at = "none" => handler_ok
            /\ file_list' = file_list \o before[1] \o error
            /\ path_list' = path_list \o before[2] \o error
            /\ sheet_list' = sheet_list \o before[3] \o error
            /\ cell_list' = cell_list \o before[4] \o error
            /\ gw_raised' = Append(gw_raised, raise_at)
            /\ gw_pc' = IF reaches_handler(raise_at) /\ ~handler_ok
                        THEN "finally" ELSE "loop"
    /\ gw_idx' = gw_idx + 1
    /\ UNCHANGED <<gw_workbooks, gw_com>>
    /\ UNCHANGED restList

\* the loop is over
GW_LoopEnd ==
    /\ gw_pc = "loop"
    /\ gw_idx = Len(gw_workbooks)
    /\ gw_pc' = "finally"
    /\ UNCHANGED <<gw_workbooks, gw_idx, file_list, sheet_list, cell_list,
                   path_list, gw_raised, gw_com>>
    /\ UNCHANGED restList

\* lines 70-73: CoUninitialize and the return of the four lists
GW_Return ==
    /\ gw_pc = "finally"
    /\ gw_com' = gw_com - 1
    /\ gw_pc' = "returned"
    /\ UNCHANGED <<gw_workbooks, gw_idx, file_list, sheet_list, cell_list,
                   path_list, gw_raised>>
    /\ UNCHANGED restList

ListNext ==
    \/ GW_Start
    \/ GW_Workbook
    \/ GW_LoopEnd
    \/ GW_Return

(***************************************************************************)
(* The UI thread and its worker threads (ui/main_window.py,                *)
(* core/session_manager.py, ui/dialogs/link_options.py,                    *)
(* ui/external_links_dialog.py, ui/console_popup.py).  A button's handler  *)
(* runs on the UI thread; the long operations start a daemon thread that   *)
(* wraps its Excel calls between CoInitialize and CoUninitialize and posts *)
(* what it has to show with after(0, ...); the UI thread's event loop runs *)
(* the posted callbacks one at a time.  No handler disables a button and   *)
(* no lock is taken, so any handler may run while a worker is running.     *)
(***************************************************************************)
MaxWorkers == 2
MaxEntries == 2

WorkerIds == 1..MaxWorkers

WorkerKinds == {"save", "save_close", "load", "cleanup", "link_update", "link_scan"}

\* the workers that wrap an Excel COM call sequence; the process cleanup works
\* on the process table (main_window.py 360-383)
uses_com(kind) == kind # "cleanup"

\* whether the handler that starts the worker opens a console: the user's
\* "show console" option for the four operations of the main window, always
\* for the link update (link_options.py 148), never for the link scan
ConsoleChoices(kind) ==
    IF kind = "link_update" THEN {TRUE}
    ELSE IF kind = "link_scan" THEN {FALSE}
    ELSE BOOLEAN

NoWorker == [kind |-> "none", pc |-> "none", total |-> 0, left |-> 0,
             sent |-> 0, reached |-> FALSE]

\* ConsolePopup.__init__ (console_popup.py 37-39); text holds the numbers of
\* the messages the console displays
NoConsole == [exists |-> FALSE, closed |-> FALSE, destroyed |-> FALSE,
              text |-> <<>>, raised |-> FALSE]

NewConsole(show_console) == [NoConsole EXCEPT !.exists = show_console]

\* root.after(0, callback), mutated: the callback is put before the pending ones
post_first(queue, callback) == <<callback>> \o queue

\* root.after(0, callback) (main_window.py 289): the callback is run by the
\* event loop after the callbacks posted before it
post(queue, callback) == Append(queue, callback)

\* the thread that runs a callback posted with after: the one in mainloop
callback_thread == "ui"

\* ConsolePopup.print, mutated: without the test of self.closed the insert
\* reaches the destroyed text widget and raises
console_print_unguarded(popup, msg) ==
    IF popup.destroyed THEN [popup EXCEPT !.raised = TRUE]
    ELSE [popup EXCEPT !.text = Append(@, msg)]

\* ConsolePopup.print (console_popup.py 65-85): nothing when the console was
\* closed, else the message is inserted at the end of the text
console_print(popup, msg) ==
    IF popup.closed THEN popup
    ELSE IF popup.destroyed THEN [popup EXCEPT !.raised = TRUE]
    ELSE [popup EXCEPT !.text = Append(@, msg)]

\* ConsolePopup.on_close (console_popup.py 87-90)
on_close(popup) == [popup EXCEPT !.closed = TRUE, !.destroyed = TRUE]

Callback(kind, w, seq) == [kind |-> kind, worker |-> w, seq |-> seq]

\* print_to_popup (main_window.py 287-289, session_manager.py 162-164,
\* link_options.py 150-151): a print callback is posted if there is a console
print_to_popup(queue, w, seq) ==
    IF console[w].exists THEN post(queue, Callback("print", w, seq)) ELSE queue

\* what a worker posts when it is through: the message box and the list
\* refresh of thread_job (main_window.py 293-294, 313-314, 381), the message
\* box of _load_files_thread (session_manager.py 240, 244), the status update
\* of scan_thread (external_links_dialog.py 177, 179); the link update posts
\* its prints only
Completions(kind, w, reached) ==
    CASE kind \in {"save", "save_close"} ->
            <<Callback("notice", w, 0), Callback("refresh", w, 0)>>
      [] kind = "load" ->
            <<Callback(IF reached THEN "notice" ELSE "error", w, 0)>>
      [] kind = "cleanup" -> <<Callback("notice", w, 0)>>
      [] kind = "link_scan" ->
            <<Callback(IF reached THEN "status" ELSE "error", w, 0)>>
      [] OTHER -> <<>>

RECURSIVE PostAll(_, _)
PostAll(queue, callbacks) ==
    IF callbacks = <<>> THEN queue
    ELSE PostAll(post(queue, Head(callbacks)), Tail(callbacks))

FreeWorkers == {w \in WorkerIds : workers[w].pc = "none"}

\* a worker between its CoInitialize and its CoUninitialize
InComSequence(w) ==
    /\ uses_com(workers[w].kind)
    /\ workers[w].pc \in {"connect", "loop", "finish"}

UIIdle == ui_op = "none"

UIInit ==
    /\ workers = [w \in WorkerIds |-> NoWorker]
    /\ console = [w \in WorkerIds |-> NoConsole]
    /\ after_queue = <<>>
    /\ timers = {}
    /\ ui_op = "none"
    /\ shown = [w \in WorkerIds |-> {}]
    /\ update_threads = {}

UIUnused == UIInit

StartWorker(w, kind, n, show_console) ==
    /\ workers' = [workers EXCEPT ![w] = [kind |-> kind, pc |-> "connect",
                                          total |-> n, left |-> n, sent |-> 0,
                                          reached |-> FALSE]]
    /\ console' = [console EXCEPT ![w] = NewConsole(show_console)]

\* save_selected_workbooks, save_close_selected_workbooks,
\* cleanup_excel_processes (main_window.py 278-316, 351-383), on_confirm of
\* the link update options (link_options.py 126-153), _scan_external_links
\* (external_links_dialog.py 169-181): the console is made, the thread started
UI_Start(kind, n, show_console) ==
    /\ UIIdle
    /\ FreeWorkers # {}
    /\ LET w == CHOOSE v \in FreeWorkers : \A u \in FreeWorkers : v <= u
       IN StartWorker(w, kind, n, show_console)
    /\ UNCHANGED <<after_queue, timers, ui_op, shown, update_threads>>
    /\ UNCHANGED restUI

\* load_session, first part (main_window.py 338-343, session_manager.py
\* 108-109): the open workbooks are enumerated on the UI thread
UI_LoadBegin ==
    /\ UIIdle
    /\ FreeWorkers # {}
    /\ ui_op' = "load"
    /\ UNCHANGED <<workers, console, after_queue, timers, shown, update_threads>>
    /\ UNCHANGED restUI

\* load_session, second part (session_manager.py 160-174, main_window.py
\* 344): the console is made, the thread started and the list refresh asked
\* for 200 ms later
UI_LoadStart ==
    /\ ui_op = "load"
    /\ \E n \in 1..MaxEntries, show_console \in BOOLEAN :
          LET w == CHOOSE v \in FreeWorkers : \A u \in FreeWorkers : v <= u
          IN /\ StartWorker(w, "load", n, show_console)
             /\ timers' = timers \cup {w}
    /\ ui_op' = "none"
    /\ UNCHANGED <<after_queue, shown, update_threads>>
    /\ UNCHANGED restUI

\* Refresh List, Activate Selected, Minimize All (main_window.py 318-327,
\* 394-405): the handler calls Excel on the UI thread
UI_ComCall(op) ==
    /\ UIIdle
    /\ ui_op' = op
    /\ UNCHANGED <<workers, console, after_queue, timers, shown, update_threads>>
    /\ UNCHANGED restUI

\* the Excel calls of a handler return
UI_ComReturn ==
    /\ ui_op \in {"refresh", "activate", "minimise"}
    /\ ui_op' = "none"
    /\ UNCHANGED <<workers, console, after_queue, timers, shown, update_threads>>
    /\ UNCHANGED restUI

\* the event loop runs the first pending callback: popup.print(msg),
\* messagebox.showinfo / showwarning / showerror, show_names (which
\* enumerates the open workbooks), _update_status_after_scan
UI_RunCallback ==
    /\ UIIdle
    /\ after_queue # <<>>
    /\ LET cb == Head(after_queue)
       IN /\ after_queue' = Tail(after_queue)
          /\ IF cb.kind = "print"
             THEN /\ console' = [console EXCEPT ![cb.worker] = console_print(@, cb.seq)]
                  /\ UNCHANGED shown
             ELSE /\ shown' = [shown EXCEPT ![cb.worker] = @ \cup {cb.kind}]
                  /\ UNCHANGED console
          /\ ui_op' = IF cb.kind = "refresh" THEN "refresh" ELSE ui_op
    /\ update_threads' = update_threads \cup {callback_thread}
    /\ UNCHANGED <<workers, timers>>
    /\ UNCHANGED restUI

\* the 200 ms timer of load_session fires (main_window.py 344): show_names
UI_Timer(w) ==
    /\ UIIdle
    /\ w \in timers
    /\ timers' = timers \ {w}
    /\ shown' = [shown EXCEPT ![w] = @ \cup {"refresh"}]
    /\ ui_op' = "refresh"
    /\ update_threads' = update_threads \cup {callback_thread}
    /\ UNCHANGED <<workers, console, after_queue>>
    /\ UNCHANGED restUI

\* the user closes a console window (WM_DELETE_WINDOW, console_popup.py 37)
UI_CloseConsole(w) ==
    /\ UIIdle
    /\ console[w].exists
    /\ ~console[w].closed
    /\ console' = [console EXCEPT ![w] = on_close(@)]
    /\ UNCHANGED <<workers, after_queue, timers, ui_op, shown, update_threads>>
    /\ UNCHANGED restUI

\* the worker's CoInitialize and Dispatch (excel_manager.py 110-113,
\* session_manager.py 185-196); a Dispatch that raises takes the worker to
\* its outer except
W_Connect(w) ==
    /\ workers[w].pc = "connect"
    /\ \E ok \in (IF uses_com(workers[w].kind) THEN BOOLEAN ELSE {TRUE}) :
          workers' = [workers EXCEPT ![w].reached = ok,
                                     ![w].pc = IF ok THEN "loop" ELSE "finish"]
    /\ UNCHANGED <<console, after_queue, timers, ui_op, shown, update_threads>>
    /\ UNCHANGED restUI

\* one iteration of the worker's loop (excel_manager.py 122-165,
\* session_manager.py 200-236): the entry comes to its outcome and its
\* progress is printed; the console's state is not read
W_Step(w) ==
    /\ workers[w].pc = "loop"
    /\ LET seq == workers[w].sent + 1
           printed == console[w].exists
       IN /\ after_queue' = print_to_popup(after_queue, w, seq)
          /\ workers' = [workers EXCEPT
                ![w].left = @ - 1,
                ![w].sent = IF printed THEN seq ELSE @,
                ![w].pc = IF workers[w].left = 1 THEN "finish" ELSE "loop"]
    /\ UNCHANGED <<console, timers, ui_op, shown, update_threads>>
    /\ UNCHANGED restUI

\* the end of the worker (excel_manager.py 167-174, main_window.py 293-294,
\* session_manager.py 239-250): the last line is printed, COM released and
\* the completion callbacks posted
W_Finish(w) ==
    /\ workers[w].pc = "finish"
    /\ LET seq == workers[w].sent + 1
           printed == console[w].exists
       IN /\ after_queue' = PostAll(print_to_popup(after_queue, w, seq),
                                    Completions(workers[w].kind, w, workers[w].reached))
          /\ workers' = [workers EXCEPT
                ![w].sent = IF printed THEN seq ELSE @,
                ![w].pc = "done"]
    /\ UNCHANGED <<console, timers, ui_op, shown, update_threads>>
    /\ UNCHANGED restUI

UINext ==
    \/ \E kind \in WorkerKinds \ {"load"}, n \in 1..MaxEntries :
          \E show_console \in ConsoleChoices(kind) : UI_Start(kind, n, show_console)
    \/ UI_LoadBegin
    \/ UI_LoadStart
    \/ \E op \in {"refresh", "activate", "minimise"} : UI_ComCall(op)
    \/ UI_ComReturn
    \/ UI_RunCallback
    \/ \E w \in WorkerIds : UI_Timer(w)
    \/ \E w \in WorkerIds : UI_CloseConsole(w)
    \/ \E w \in WorkerIds : W_Connect(w)
    \/ \E w \in WorkerIds : W_Step(w)
    \/ \E w \in WorkerIds : W_Finish(w)

(***************************************************************************)
(* The specifications: one per component, the others at rest.              *)
(***************************************************************************)
InitLU == LUInit /\ ScanInit /\ SessUnused /\ SaveUnused /\ ProcUnused /\ PerfUnused /\ ListUnused /\ UIUnused

SpecLU == InitLU /\ [][LUNext]_vars

InitScan == LUUnused /\ ScanInit /\ SessUnused /\ SaveUnused /\ ProcUnused /\ PerfUnused /\ ListUnused /\ UIUnused

SpecScan == InitScan /\ [][ScanNext]_vars

InitSession == LUUnused /\ ScanInit /\ SessInit /\ SaveUnused /\ ProcUnused /\ PerfUnused /\ ListUnused /\ UIUnused

SpecSession == InitSession /\ [][SessNext]_vars

InitSave == LUUnused /\ ScanInit /\ SessUnused /\ SaveInit /\ ProcUnused /\ PerfUnused /\ ListUnused /\ UIUnused

SpecSave == InitSave /\ [][SaveNext]_vars

InitProc == LUUnused /\ ScanInit /\ SessUnused /\ SaveUnused /\ ProcInit /\ PerfUnused /\ ListUnused /\ UIUnused

SpecProc == InitProc /\ [][ProcNext]_vars

InitPerf == LUUnused /\ ScanInit /\ SessUnused /\ SaveUnused /\ ProcUnused /\ PerfInit /\ ListUnused /\ UIUnused

SpecPerf == InitPerf /\ [][PerfNext]_vars

InitList == LUUnused /\ ScanInit /\ SessUnused /\ SaveUnused /\ ProcUnused /\ PerfUnused /\ ListInit /\ UIUnused

SpecList == InitList /\ [][ListNext]_vars

InitUI == LUUnused /\ ScanInit /\ SessUnused /\ SaveUnused /\ ProcUnused /\ PerfUnused /\ ListUnused /\ UIInit

SpecUI == InitUI /\ [][UINext]_vars

(***************************************************************************)
(* Properties of the link updater.                                         *)
(***************************************************************************)
\* the paths that are open as workbooks in Excel
OpenPaths == Range(Workbooks)

\* the cutoff: the run's start time minus CHECK_DAYS days
Cutoff == Now - CHECK_DAYS

\* the links of workbook w in the order they were classified / updated
RECURSIVE EventLinks(_, _, _)
EventLinks(evs, kind, w) ==
    IF evs = <<>> THEN <<>>
    ELSE IF Head(evs).kind = kind /\ Head(evs).wb = w
         THEN <<Head(evs).link>> \o EventLinks(Tail(evs), kind, w)
         ELSE EventLinks(Tail(evs), kind, w)

Classified(w) == EventLinks(events, "classify", w)
Updated(w) == EventLinks(events, "update", w)

\* the loop is through with workbook w
WorkbookDone(w) ==
    \/ w < workbook_index
    \/ w = workbook_index /\ lu_pc \in {"next_wb", "finally", "done"}

\* s without the elements outside S
RECURSIVE Restrict(_, _)
Restrict(s, S) ==
    IF s = <<>> THEN <<>>
    ELSE IF Head(s) \in S THEN <<Head(s)>> \o Restrict(Tail(s), S)
         ELSE Restrict(Tail(s), S)

\* a link the claims call eligible: accessible, modified on or after the
\* cutoff, and not open in Excel
Eligible(link) ==
    /\ disk[link] # Missing
    /\ disk[link] >= Cutoff
    /\ link \notin OpenPaths

\* C1 (as stated): UpdateLink is never invoked for a link whose source file is
\* open as a workbook in Excel, whatever other workbooks are open.
C1_OpenSourceNeverUpdated ==
    \A i \in 1..Len(events) :
        events[i].kind = "update" => events[i].link \notin OpenPaths

\* C2: UpdateLink is never invoked for a link whose source is not accessible or
\* was modified strictly before the cutoff, and a source modified exactly at
\* the cutoff counts as recent: when it is not open, it is updated.
C2_OnlyRecentUpdated ==
    /\ \A i \in 1..Len(events) :
          events[i].kind = "update" =>
             /\ disk[events[i].link] # Missing
             /\ ~(disk[events[i].link] < Cutoff)
    /\ \A w \in 1..Len(Workbooks) : \A link \in Range(Classified(w)) :
          (WorkbookDone(w) /\ disk[link] = Cutoff /\ link \notin OpenPaths)
             => link \in Range(Updated(w))

\* C2 witness: the run is over and a link modified exactly at the cutoff was
\* updated, while a link of the same workbook that is older or not accessible
\* was classified and left alone
C2_Witness ==
    /\ lu_pc = "done"
    /\ \E w \in 1..Len(Workbooks) :
          /\ \E link \in Range(Updated(w)) : disk[link] = Cutoff
          /\ \E link \in Range(Classified(w)) :
                /\ disk[link] = Missing \/ disk[link] < Cutoff
                /\ link \notin Range(Updated(w))

\* C3: for every workbook whose links were enumerated, every eligible link gets
\* exactly one UpdateLink call, the calls follow the order of LinkSources, and
\* every link of the workbook is classified before its first UpdateLink call.
C3_EligibleUpdatedOnceInOrder ==
    /\ \A w \in 1..Len(Workbooks) :
          WorkbookDone(w) =>
             /\ \A link \in Range(Classified(w)) :
                   Eligible(link) => Count(Updated(w), link) = 1
             /\ Updated(w) = Restrict(Classified(w), Range(Updated(w)))
    /\ \A i, j \in 1..Len(events) :
          (events[i].wb = events[j].wb /\ events[i].kind = "update"
             /\ events[j].kind = "classify") => j < i
    /\ \A w \in 1..Len(Workbooks) :
          Updated(w) # <<>> =>
             (w = workbook_index => link_index = Len(links))

\* C3 witness: a workbook with two eligible links, both updated, the run over
C3_Witness ==
    /\ lu_pc = "done"
    /\ \E w \in 1..Len(Workbooks) :
          /\ Len(Updated(w)) = 2
          /\ \A link \in Range(Updated(w)) : Eligible(link)

(***************************************************************************)
(* Properties of the external links manager.                               *)
(***************************************************************************)
\* no scan_open_workbooks call is in progress
NoScanInProgress == \A t \in Scanners : scan_pc[t] \in {"idle", "returned"}

\* the location and target of a link
LinkKey(link) ==
    <<link.source_workbook, link.source_sheet, link.source_cell,
      link.target_file>>

\* C4 (as stated): after scan_open_workbooks returns, external_links holds no
\* two entries with the same (source_workbook, source_sheet, source_cell,
\* target_file).
C4_NoTwoEntriesSameKey ==
    (NoScanInProgress /\ latest_scan # "none") =>
        \A i, j \in 1..Len(external_links) :
            i # j => LinkKey(external_links[i]) # LinkKey(external_links[j])

\* the sum of the reference_counts of the groups of the files in S
RECURSIVE SumCounts(_, _)
SumCounts(groups, S) ==
    IF S = {} THEN 0
    ELSE LET f == CHOOSE x \in S : TRUE
         IN groups[f].reference_count + SumCounts(groups, S \ {f})

\* the links of list whose target is file, in list order
LinksTo(list, file) ==
    SelectSeq(list, LAMBDA link : link.target_file = file)

\* groups is a partition of list by target file
IsPartition(groups, list) ==
    /\ DOMAIN groups = {list[i].target_file : i \in 1..Len(list)}
    /\ \A file \in DOMAIN groups :
          /\ groups[file].external_file = file
          /\ groups[file].links = LinksTo(list, file)
          /\ groups[file].links # <<>>
          /\ groups[file].reference_count = Len(groups[file].links)
    /\ SumCounts(groups, DOMAIN groups) = Len(list)

C6_OnlyLatestScanLinks ==
    NoScanInProgress => external_links = scan_found

\* hay contains needle, letter case ignored
ContainsCI(hay, needle) ==
    \E i \in 0..(Len(hay) - Len(needle)) :
        \A k \in 1..Len(needle) : Lower(hay[i + k]) = Lower(needle[k])

\* the single fields search_links knows, and the field of the link each selects
SingleFields == {"external_file", "formula", "source_workbook"}

FieldOf(link, field) ==
    CASE field = "external_file" -> link.target_file
      [] field = "formula" -> link.formula
      [] field = "source_workbook" -> link.source_workbook

\* the links whose field contains the keyword, in scan order
SingleFieldResult(keyword, field) ==
    SelectSeq(external_links,
              LAMBDA link : ContainsCI(FieldOf(link, field), keyword))

\* the links that are in one of the three single-field results, in scan order
UnionResult(keyword) ==
    SelectSeq(external_links,
              LAMBDA link : \E field \in SingleFields :
                               link \in Range(SingleFieldResult(keyword, field)))

\* what C7 says of a search_links call but for the unknown field names
SearchKnownFields(keyword, field, result) ==
    /\ field \in SingleFields => result = SingleFieldResult(keyword, field)
    /\ field = "all" => result = UnionResult(keyword)
    /\ keyword = <<>> => result = external_links

\* C7 (as stated): search_links returns, in scan order, the links whose field
\* contains the keyword case-insensitively, with 'all' the union of the three
\* single-field results, with an empty keyword every link, and with any other
\* field name no link.
C7_SearchAsStated ==
    view.op = "search_links" =>
        /\ SearchKnownFields(view.keyword, view.field, view.result)
        /\ view.field \notin SingleFields \cup {"all"} => view.result = <<>>

\* C7 (amended): as stated, but any other field name gives no link only when
\* the keyword is not empty; an empty keyword gives every link whatever the
\* field name.
C7_SearchAmended ==
    view.op = "search_links" =>
        /\ SearchKnownFields(view.keyword, view.field, view.result)
        /\ (view.field \notin SingleFields \cup {"all"} /\ view.keyword # <<>>)
              => view.result = <<>>

\* C7 witness: a search by external file with a keyword in capitals returned
\* some of the links and left others out
C7_Witness ==
    /\ view.op = "search_links"
    /\ view.field = "external_file"
    /\ view.keyword = <<"A">>
    /\ view.result # <<>>
    /\ Len(view.result) < Len(external_links)

(***************************************************************************)
(* Properties of the session manager.                                      *)
(***************************************************************************)
\* the (file_path, sheet_name, cell_address) triples of a selection
Triples(selected_workbooks) ==
    [i \in 1..Len(selected_workbooks) |->
        <<selected_workbooks[i][2], selected_workbooks[i][3],
          selected_workbooks[i][4]>>]

\* the session file is one header row and one row per selected workbook
OneRowPerWorkbook ==
    /\ session_file[1] = HeaderRow
    /\ Len(session_file) = Len(last_save.selected) + 1

\* C8 (as stated): the data rows read back from the file save_session wrote
\* are, in the same order, exactly the triples of the selection, one row per
\* selected workbook after a single header row.
C8_RowsAreTheTriples ==
    last_save.status = "saved" =>
        /\ OneRowPerWorkbook
        /\ last_save.read_back = Triples(last_save.selected)

\* a value as it is read back: None for an empty string
EmptyAsNone(value) == IF value = "" THEN None ELSE value

\* C8 (amended): the data rows read back are, in the same order, the triples
\* of the selection with every empty sheet name or cell address read back as
\* None, one row per selected workbook after a single header row.
C8_RowsAreTheTriplesEmptyAsNone ==
    last_save.status = "saved" =>
        /\ OneRowPerWorkbook
        /\ Len(last_save.read_back) = Len(last_save.selected)
        /\ \A i \in 1..Len(last_save.selected) : \A k \in 1..3 :
              last_save.read_back[i][k] =
                 EmptyAsNone(Triples(last_save.selected)[i][k])

\* C8 witness: a session of two workbooks was saved and read back, one of them
\* without active sheet and active cell
C8_Witness ==
    /\ last_save.status = "saved"
    /\ Len(last_save.selected) = 2
    /\ Len(last_save.read_back) = 2
    /\ \E i \in 1..2 : last_save.selected[i][3] = ""
    /\ \E i \in 1..2 : last_save.selected[i][3] # ""

\* the paths load_session call t passed to Workbooks.Open
OpenedBy(t) ==
    {open_calls[i].path : i \in {k \in 1..Len(open_calls) : open_calls[k].call = t}}

\* C9 (as stated): a load_session called while at least one workbook is open
\* in Excel shows the warning and returns: it reads no session file and opens
\* no workbook.
C9_NoLoadWhileWorkbooksOpen ==
    \A t \in Loaders :
        (load_pc[t] # "idle" /\ load_info[t].had_open) =>
            /\ load_info[t].outcome = "warning_close_files"
            /\ ~load_info[t].file_read
            /\ OpenedBy(t) = {}

\* C10: every path passed to Workbooks.Open is the file_path of a data row of
\* the session file the call read, existed on disk when the call validated
\* the session, and was selected in the file-selection dialog; when no row
\* has an existing path nothing is opened.
C10_OnlySelectedExistingRowsOpened ==
    \A t \in Loaders :
        /\ \A path \in OpenedBy(t) :
              /\ \E i \in 1..Len(load_info[t].rows) :
                    load_info[t].rows[i][1] = path
              /\ path \in load_info[t].on_disk
              /\ path \in load_info[t].selected_files
        /\ (\A i \in 1..Len(load_info[t].rows) :
               load_info[t].rows[i][1] \notin load_info[t].on_disk)
              => OpenedBy(t) = {}

\* C10 witness: the thread is through; of a session with an existing selected
\* file, an existing deselected file and a file that does not exist, it has
\* opened the first and nothing else
C10_Witness ==
    \E t \in Loaders :
        /\ load_pc[t] = "done"
        /\ load_info[t].rows = data_rows(EarlierSessionFile)
        /\ load_info[t].on_disk = {"p1.xlsx", "p2.xlsx"}
        /\ load_info[t].selected_files = {"p1.xlsx"}
        /\ OpenedBy(t) = {"p1.xlsx"}

(***************************************************************************)
(* Properties of the save passes.                                          *)
(***************************************************************************)
\* the calls of one kind the pass made for the selected entry i, in order
CallsFor(i, call) ==
    SelectSeq(sv_calls, LAMBDA c : c.entry = i /\ c.call = call)

\* the outcomes reported for the selected entry i
ReportsFor(i) == SelectSeq(sv_report, LAMBDA r : r.entry = i)

\* the selected entries whose workbook the pass found open
FoundOpen ==
    {i \in 1..Len(sv_selected) :
        \/ \E k \in 1..Len(sv_report) :
              sv_report[k].entry = i /\ sv_report[k].lookup = "found"
        \/ i = sv_idx /\ sv_pc \in {"save", "close"}}

\* Save was invoked between once and three times for the entry (once the entry
\* is through), and never again after a Save that succeeded
SaveAttemptsBounded(i) ==
    LET saves == CallsFor(i, "Save") IN
    /\ Len(saves) <= 3
    /\ ReportsFor(i) # <<>> => Len(saves) >= 1
    /\ \A k \in 1..(Len(saves) - 1) : ~saves[k].ok

\* the entry's three Save attempts all failed
ThreeSavesFailed(i) ==
    LET saves == CallsFor(i, "Save") IN
    Len(saves) = 3 /\ \A k \in 1..3 : ~saves[k].ok

\* the entry was reported as failed
ReportedFailed(i) ==
    \E k \in 1..Len(sv_report) :
        sv_report[k].entry = i /\ sv_report[k].outcome = "failed"

\* C11 (as stated): for each selected workbook found open, Save is invoked at
\* least once and at most 3 times, never again after the first successful
\* Save, and the workbook is reported as failed only after the third
\* consecutive failure.
C11_SaveRetriesAsStated ==
    \A i \in FoundOpen :
        /\ SaveAttemptsBounded(i)
        /\ ReportedFailed(i) => ThreeSavesFailed(i)

\* C11 (amended): as stated, but in save_and_close_workbooks the workbook is
\* also reported as failed when its Save succeeded and its Close raised.
C11_SaveRetriesAmended ==
    \A i \in FoundOpen :
        /\ SaveAttemptsBounded(i)
        /\ ReportedFailed(i) =>
              \/ ThreeSavesFailed(i)
              \/ /\ sv_op = "save_close"
                 /\ \E k \in 1..Len(CallsFor(i, "Save")) : CallsFor(i, "Save")[k].ok
                 /\ \E k \in 1..Len(CallsFor(i, "Close")) : ~CallsFor(i, "Close")[k].ok

\* C11 witness: the pass is over; one workbook was saved at the third attempt
\* and another was reported as failed after three failed attempts
C11_Witness ==
    /\ sv_pc = "done"
    /\ \E i, j \in FoundOpen :
          /\ Len(CallsFor(i, "Save")) = 3
          /\ CallsFor(i, "Save")[3].ok
          /\ ~ReportedFailed(i)
          /\ ThreeSavesFailed(j)
          /\ ReportedFailed(j)

\* C12: Close is invoked on a workbook only after a Save of that workbook has
\* succeeded in the same pass, and a workbook whose three Save attempts all
\* failed is not closed: it remains open.
C12_CloseOnlyAfterSave ==
    /\ \A k \in 1..Len(sv_calls) :
          sv_calls[k].call = "Close" =>
             \E j \in 1..(k - 1) :
                /\ sv_calls[j].call = "Save"
                /\ sv_calls[j].name = sv_calls[k].name
                /\ sv_calls[j].ok
    /\ \A i \in 1..Len(sv_selected) :
          ThreeSavesFailed(i) =>
             /\ CallsFor(i, "Close") = <<>>
             /\ sv_selected[i] \in Range(open_names)

\* C12 witness: a save-and-close pass is over; one workbook was closed after a
\* Save that succeeded at the second attempt, another failed three times and
\* is still open
C12_Witness ==
    /\ sv_pc = "done"
    /\ sv_op = "save_close"
    /\ \E i, j \in 1..Len(sv_selected) :
          /\ Len(CallsFor(i, "Save")) = 2
          /\ CallsFor(i, "Close") # <<>>
          /\ CallsFor(i, "Close")[1].ok
          /\ sv_selected[i] \notin Range(open_names)
          /\ ThreeSavesFailed(j)
          /\ sv_selected[j] \in Range(open_names)

\* every Save and Close call is made on the workbook that bears the name of
\* the selected entry it is made for
CallsOnSelectedNames ==
    \A k \in 1..Len(sv_calls) :
        sv_calls[k].name = sv_selected[sv_calls[k].entry]

\* C13 (as stated): Save and Close are called only on open workbooks whose
\* Name is the name of a selected entry; for a selected name with no open
\* workbook no Save or Close is called and 'not found' is reported.
C13_OnlySelectedAsStated ==
    /\ CallsOnSelectedNames
    /\ \A k \in 1..Len(sv_report) :
          ~sv_report[k].was_open =>
             /\ CallsFor(sv_report[k].entry, "Save") = <<>>
             /\ CallsFor(sv_report[k].entry, "Close") = <<>>
             /\ sv_report[k].outcome = "not_found"

\* C13 (amended): as stated, but when enumerating the open workbooks raises
\* while the entry is looked up, the entry is reported as failed and not as
\* 'not found'.
C13_OnlySelectedAmended ==
    /\ CallsOnSelectedNames
    /\ \A k \in 1..Len(sv_report) :
          ~sv_report[k].was_open =>
             /\ CallsFor(sv_report[k].entry, "Save") = <<>>
             /\ CallsFor(sv_report[k].entry, "Close") = <<>>
             /\ sv_report[k].outcome =
                   IF sv_report[k].lookup = "raised" THEN "failed"
                   ELSE "not_found"

\* C13 witness: the pass is over; the second open workbook was selected and
\* saved, a selected name without open workbook was reported as not found,
\* and the first open workbook, which was not selected, got no call
C13_Witness ==
    /\ sv_pc = "done"
    /\ Len(open_names) = 2
    /\ open_names[1] \notin Range(sv_selected)
    /\ \A k \in 1..Len(sv_calls) : sv_calls[k].name # open_names[1]
    /\ \E k \in 1..Len(sv_calls) : sv_calls[k].name = open_names[2]
    /\ \E k \in 1..Len(sv_report) :
          sv_report[k].outcome = "not_found" /\ ~sv_report[k].was_open

(***************************************************************************)
(* Properties of the zombie cleanup.                                       *)
(***************************************************************************)
\* C14: terminate and kill are called only on processes whose name contains
\* 'excel' (case-insensitively) and that are zombies or no longer running,
\* never on a live Excel process or on a process of another name; and kill is
\* called only after the terminate of that process ran into the timeout or
\* found the process vanished.
C14_OnlyDeadExcelProcesses ==
    \A k \in 1..Len(pz_calls) :
        /\ Contains([i \in 1..Len(pz_calls[k].name) |->
                        lower_symbol(pz_calls[k].name[i])], <<"excel">>)
        /\ pz_calls[k].state \in {"zombie", "gone"}
        /\ pz_calls[k].call = "kill" =>
              /\ k > 1
              /\ pz_calls[k - 1].call = "terminate"
              /\ pz_calls[k - 1].pid = pz_calls[k].pid
              /\ pz_calls[k].after \in {"TimeoutExpired", "NoSuchProcess"}

\* C14 witness: the cleanup is over; a zombie EXCEL.EXE was terminated and,
\* the wait having timed out, killed, while a live excel.exe got no call
C14_Witness ==
    /\ pz_pc = "done"
    /\ \E k \in 2..Len(pz_calls) :
          /\ pz_calls[k].call = "kill"
          /\ pz_calls[k].after = "TimeoutExpired"
          /\ pz_calls[k].name = ExcelUpperExe
          /\ pz_calls[k].state = "zombie"
    /\ \E pid \in Pids :
          /\ processes[pid].name = ExcelLowerExe
          /\ processes[pid].state \in LiveStates
          /\ \A k \in 1..Len(pz_calls) : pz_calls[k].pid # pid

(***************************************************************************)
(* Properties of the performance monitor.                                  *)
(***************************************************************************)
\* the newest n records of a history, in order
Newest(history, n) ==
    IF Len(history) <= n THEN history
    ELSE SubSeq(history, Len(history) - n + 1, Len(history))

\* C15: metrics_history and operation_timings each hold at most max_history
\* records: the newest max_history records appended, in the order in which
\* they were appended (a record appended to a full buffer drops the oldest).
C15_NewestRecordsRetained ==
    /\ Len(metrics_history) <= max_history
    /\ Len(operation_timings) <= max_history
    /\ metrics_history = Newest(metrics_recorded, max_history)
    /\ operation_timings = Newest(timings_recorded, max_history)

\* C15 witness: both buffers are full of two different records and have
\* dropped their oldest record
C15_Witness ==
    /\ max_history = 2
    /\ Len(metrics_history) = 2
    /\ metrics_history[1] # metrics_history[2]
    /\ Len(metrics_recorded) > 2
    /\ metrics_recorded[1] \notin Range(metrics_history)
    /\ Len(operation_timings) = 2
    /\ operation_timings[1] # operation_timings[2]
    /\ Len(timings_recorded) > 2
    /\ timings_recorded[1] \notin Range(operation_timings)

(***************************************************************************)
(* Properties of get_open_workbooks.                                       *)
(***************************************************************************)
\* C16: when get_open_workbooks has gone through the open workbooks, its four
\* lists have the same length, one entry per open workbook at the same
\* index in each: the workbook's name and path, or 'Error' in all four lists
\* for a workbook one of whose properties raised.
C16_ListsAligned ==
    (gw_pc = "returned" /\ gw_idx = Len(gw_workbooks)
        /\ Len(gw_raised) = Len(gw_workbooks)) =>
       /\ Len(file_list) = Len(gw_workbooks)
       /\ Len(path_list) = Len(gw_workbooks)
       /\ Len(sheet_list) = Len(gw_workbooks)
       /\ Len(cell_list) = Len(gw_workbooks)
       /\ \A i \in 1..Len(gw_workbooks) :
             IF reaches_handler(gw_raised[i])
             THEN /\ file_list[i] = "Error"
                  /\ path_list[i] = "Error"
                  /\ sheet_list[i] = "Error"
                  /\ cell_list[i] = "Error"
             ELSE /\ file_list[i] = gw_workbooks[i]
                  /\ path_list[i] = FullNameOf(gw_workbooks[i])

(***************************************************************************)
(* Properties of the scan's statistics and of its two methods.             *)
(***************************************************************************)
\* the source workbooks of the links of a list
SourceWorkbooks(list) == {list[i].source_workbook : i \in 1..Len(list)}

\* the other scan call has not started: the call that returned ran alone
RanAlone(t) == \A u \in Scanners \ {t} : scan_pc[u] = "idle"

\* C17: the statistics scan_open_workbooks returns agree with the links it
\* returns: total_links is their number, unique_external_files the number of
\* their distinct target files, workbooks_with_links the number of their
\* distinct source workbooks, which is at most total_workbooks.
C17_StatisticsAgreeWithLinks ==
    (scan_result.call # "none" /\ RanAlone(scan_result.call)) =>
       /\ scan_result.statistics.total_links = Len(scan_result.links)
       /\ scan_result.statistics.unique_external_files =
             Cardinality(TargetFiles(scan_result.links))
       /\ scan_result.statistics.workbooks_with_links =
             Cardinality(SourceWorkbooks(scan_result.links))
       /\ scan_result.statistics.workbooks_with_links <=
             scan_result.statistics.total_workbooks

\* C18: the links Method 1 (LinkSources) found in a workbook are in the list
\* the scan returns, also when Method 2 (the formulas) failed in that
\* workbook.
C18_Method1LinksKept ==
    (scan_result.call # "none" /\ scan_result.call = latest_scan
        /\ RanAlone(scan_result.call)) =>
       \A i \in 1..Len(method1_found) :
           method1_found[i] \in Range(scan_result.links)

(***************************************************************************)
(* Properties of the link updater's failure handling.                      *)
(***************************************************************************)
\* C19: a failed UpdateLink does not keep the remaining links of the workbook
\* that need updating from their UpdateLink call (once the workbook's update
\* loop is over, every link of updated_links has had its call); a failure while reading one
\* workbook's links does not keep the following workbooks from being
\* scanned (the loop goes on to its next iteration and ends only after the
\* last workbook); and the 'Links updated' total is the number of UpdateLink
\* calls that returned without error.
C19_FailuresDoNotStopTheRun ==
    /\ lu_pc = "update" => Len(update_returned) = update_index
    /\ (lu_pc \notin {"classify", "update"} /\ update_returned # <<>>) =>
          /\ Len(update_returned) = Len(updated_links)
          /\ Updated(workbook_index) = updated_links
    /\ read_failed =>
          /\ lu_pc \in {"next_wb", "finally", "done"}
          /\ lu_pc \in {"finally", "done"} => workbook_index = Len(Workbooks)
    /\ total_updated = returned_count

\* C19 witness: the run is over; in a workbook with two links to update the
\* first UpdateLink call failed and the second returned: one link updated
C19_Witness ==
    /\ lu_pc = "done"
    /\ \E w \in 1..Len(Workbooks) : Len(Updated(w)) = 2
    /\ update_returned = <<FALSE, TRUE>>
    /\ total_updated = 1

\* C20: on every path on which run_excel_link_update ends, the log file it
\* opened has been closed and every CoInitialize has been matched by a
\* CoUninitialize.
C20_LogClosedAndComReleased ==
    lu_pc \in {"done", "raised"} =>
       /\ log_file_handler # "open"
       /\ com_initialized = 0

(***************************************************************************)
(* Properties of the save passes: every entry gets its outcome.            *)
(***************************************************************************)
\* the selected entries the pass is through with
EntriesThrough ==
    IF sv_pc \in {"finally", "done"} THEN sv_idx
    ELSE IF sv_idx = 0 THEN 0 ELSE sv_idx - 1

\* C21: once Excel is reached, a workbook that fails (not found, or Save or
\* Close raising) does not keep the later selected workbooks from being
\* processed: the outcomes reported so far are those of the entries the pass
\* is through with, one per entry (saved, not found or failed), in the order
\* of the selection; and when the pass is over every selected entry has its
\* outcome and completion has been reported.
C21_EveryEntryOneOutcome ==
    sv_idx >= 1 =>
       /\ Len(sv_report) = EntriesThrough
       /\ \A k \in 1..Len(sv_report) :
             /\ sv_report[k].entry = k
             /\ sv_report[k].name = sv_selected[k]
             /\ sv_report[k].outcome \in {"saved", "not_found", "failed"}
       /\ sv_pc \in {"finally", "done"} =>
             /\ Len(sv_report) = Len(sv_selected)
             /\ sv_completed

\* C21 witness: the pass is over and has reported completion; its first
\* workbook failed after three Save attempts and its second was saved
C21_Witness ==
    /\ sv_pc = "done"
    /\ sv_completed
    /\ Len(sv_report) = 2
    /\ sv_report[1].outcome = "failed"
    /\ ThreeSavesFailed(1)
    /\ sv_report[2].outcome = "saved"

(***************************************************************************)
(* Properties of the UI thread and its workers.                            *)
(***************************************************************************)
\* the number of threads that are in an Excel call sequence
ComThreads ==
    Cardinality({w \in WorkerIds : InComSequence(w)})
       + (IF ui_op = "none" THEN 0 ELSE 1)

\* C22: at no time are two threads in an Excel COM call sequence: a worker
\* that wraps one never overlaps with another such worker nor with an
\* enumeration made on the UI thread.
C22_NoConcurrentCom == ComThreads <= 1

\* the pending print callbacks of a worker, oldest first
RECURSIVE PendingPrints(_, _)
PendingPrints(queue, w) ==
    IF queue = <<>> THEN <<>>
    ELSE IF Head(queue).kind = "print" /\ Head(queue).worker = w
         THEN <<Head(queue).seq>> \o PendingPrints(Tail(queue), w)
         ELSE PendingPrints(Tail(queue), w)

Passes == {"save", "save_close", "load"}

\* nothing of worker w is pending on the UI thread
Delivered(w) ==
    /\ \A i \in 1..Len(after_queue) : after_queue[i].worker # w
    /\ w \notin timers

====
